---- MODULE Spec2Model ----
(***************************************************************************)
(* Form-submission pipeline of override_project_integration:               *)
(* submit_form (api/forms.py), BaseFormProcessor.process_form and the      *)
(* concrete processors (api/processors.py), ValidationHelper               *)
(* (api/field_mapping.py), ChildTableProcessor (api/child_table_utils.py)  *)
(* and the attachment manager (api/file_handler.py).                       *)
(*                                                                         *)
(* Python values are tagged records: None, a str (a sequence of one-       *)
(* character strings), an int, a list, a dict (a function from keys to     *)
(* values) and an uploaded file.  A key that a dict does not hold is the   *)
(* tag "absent" in a submission, so that `k in form_data` and              *)
(* `form_data.get(k)` can differ as they do in Python.                     *)
(***************************************************************************)
EXTENDS Integers, Sequences, FiniteSets, TLC

VARIABLES
    doctypes,    \* record types (DocTypes) that exist in the store
    store,       \* persisted records, in insertion order
    files,       \* File documents created by the attachment collaborator
    errlog,      \* titles/messages written with frappe.log_error
    pc,          \* per request: position in submit_form / process_form
    req,         \* per request: the raw request
    loc,         \* per request: locals of submit_form / process_form
    result,      \* per request: the dict returned by process_form
    response,    \* per request: the api_response returned by submit_form
    obs,         \* history: per request, what it saw of the store and of the others
    fn_name,     \* pure-function runs: the function applied
    fn_in,       \* pure-function runs: its arguments
    fn_out,      \* pure-function runs: its result ("pending" before the call)
    rl_limit,    \* rate limit: the limit argument of the decorator
    cache,       \* rate limit: the counter frappe.cache() holds for the client IP
    rl,          \* rate limit: per request, its position in the wrapper and locals
    invoked,     \* history: calls of the wrapped endpoint since the counter was new
    rl_hist      \* history: whether requests overlapped, whether the cache raised

vars == <<doctypes, store, files, errlog, pc, req, loc, result, response,
          obs, fn_name, fn_in, fn_out, rl_limit, cache, rl, invoked, rl_hist>>

pipeVars == <<doctypes, store, files, errlog, pc, req, loc, result, response, obs>>

fnVars == <<fn_name, fn_in, fn_out>>

rateVars == <<rl_limit, cache, rl, invoked, rl_hist>>

-----------------------------------------------------------------------------
(* Python values *)

None == [t |-> "none"]

Absent == [t |-> "absent"]

S(chars) == [t |-> "str", s |-> chars]

I(n) == [t |-> "int", n |-> n]

L(items) == [t |-> "list", l |-> items]

D(f) == [t |-> "dict", d |-> f]

\* a float, as the exact decimal num / 10^scale
Fl(num, scale) == [t |-> "float", num |-> num, scale |-> scale]

\* an uploaded file as _extract_uploaded_files builds it
FileData(name, size) == [t |-> "file", filename |-> name, size |-> size]

EmptyDict == [k \in {} |-> None]

isinstance_str(v) == v.t = "str"

isinstance_list(v) == v.t = "list"

isinstance_dict(v) == v.t \in {"dict", "file"}

\* bool(v): Python truthiness
Truthy(v) ==
    CASE v.t = "none" -> FALSE
      [] v.t = "absent" -> FALSE
      [] v.t = "str" -> Len(v.s) > 0
      [] v.t = "int" -> v.n # 0
      [] v.t = "list" -> Len(v.l) > 0
      [] v.t = "dict" -> DOMAIN v.d # {}
      [] v.t = "float" -> v.num # 0
      [] v.t = "file" -> TRUE

\* form_data.get(k): None for a key the dict does not hold
Get(fd, k) == IF k \in DOMAIN fd /\ fd[k].t # "absent" THEN fd[k] ELSE None

\* k in form_data
Has(fd, k) == k \in DOMAIN fd /\ fd[k].t # "absent"

\* d[k] = v
DictSet(d, k, v) == [x \in DOMAIN d \cup {k} |-> IF x = k THEN v ELSE d[x]]

\* d.update(e)
DictUpdate(d, e) == [x \in DOMAIN d \cup DOMAIN e |-> IF x \in DOMAIN e THEN e[x] ELSE d[x]]

-----------------------------------------------------------------------------
(* str operations *)

Whitespace == {" ", "\t", "\n"}

Digits == {"0", "1", "2", "3", "4", "5", "6", "7", "8", "9"}

LowerLetters == {"a", "b", "c", "d", "e", "f", "g", "h", "i", "j", "k", "l", "m",
                 "n", "o", "p", "q", "r", "s", "t", "u", "v", "w", "x", "y", "z"}

UpperLetters == {"A", "B", "C", "D", "E", "F", "G", "H", "I", "J", "K", "L", "M",
                 "N", "O", "P", "Q", "R", "S", "T", "U", "V", "W", "X", "Y", "Z"}

Letters == LowerLetters \cup UpperLetters

DigitVal(c) ==
    CASE c = "0" -> 0 [] c = "1" -> 1 [] c = "2" -> 2 [] c = "3" -> 3 [] c = "4" -> 4
      [] c = "5" -> 5 [] c = "6" -> 6 [] c = "7" -> 7 [] c = "8" -> 8 [] c = "9" -> 9

DigitChar(n) ==
    CASE n = 0 -> "0" [] n = 1 -> "1" [] n = 2 -> "2" [] n = 3 -> "3" [] n = 4 -> "4"
      [] n = 5 -> "5" [] n = 6 -> "6" [] n = 7 -> "7" [] n = 8 -> "8" [] n = 9 -> "9"

RECURSIVE LStrip(_)
LStrip(s) == IF s # <<>> /\ Head(s) \in Whitespace THEN LStrip(Tail(s)) ELSE s

RECURSIVE RStrip(_)
RStrip(s) ==
    IF s # <<>> /\ s[Len(s)] \in Whitespace THEN RStrip(SubSeq(s, 1, Len(s) - 1)) ELSE s

\* str.strip()
Strip(s) == RStrip(LStrip(s))

\* the characters of s that are in keep, in order (re.sub of the complement by '')
Keep(s, keep) == SelectSeq(s, LAMBDA c : c \in keep)

\* str.replace(c, "") for a single character c
Remove(s, c) == SelectSeq(s, LAMBDA x : x # c)

CountChar(s, c) == Len(SelectSeq(s, LAMBDA x : x = c))

AllIn(s, chars) == \A i \in 1..Len(s) : s[i] \in chars

RECURSIVE NatOfDigits(_)
NatOfDigits(s) ==
    IF s = <<>> THEN 0 ELSE 10 * NatOfDigits(SubSeq(s, 1, Len(s) - 1)) + DigitVal(s[Len(s)])

RECURSIVE DigitsOfNat(_)
DigitsOfNat(n) == IF n < 10 THEN <<DigitChar(n)>> ELSE DigitsOfNat(n \div 10) \o <<DigitChar(n % 10)>>

\* str(n) for an int
StrOfInt(n) == IF n < 0 THEN <<"-">> \o DigitsOfNat(-n) ELSE DigitsOfNat(n)

\* str(v), for the values whose text the code looks at
StrOf(v) ==
    CASE v.t = "str" -> v.s
      [] v.t = "int" -> StrOfInt(v.n)
      [] v.t = "none" -> <<"N", "o", "n", "e">>
      [] v.t = "list" -> IF v.l = <<>> THEN <<"[", "]">> ELSE <<"[", ".", "]">>
      [] OTHER -> <<"{", ".", "}">>

IntOfDigits(negative, ds) ==
    IF ds # <<>> /\ AllIn(ds, Digits)
    THEN [ok |-> TRUE, n |-> IF negative THEN -NatOfDigits(ds) ELSE NatOfDigits(ds)]
    ELSE [ok |-> FALSE, n |-> 0]

\* int(text): surrounding whitespace is ignored, one optional sign, then digits
IntOfStr(s) ==
    LET unsigned(b) == IF b # <<>> /\ Head(b) \in {"+", "-"}
                       THEN IntOfDigits(Head(b) = "-", Tail(b))
                       ELSE IntOfDigits(FALSE, b)
    IN  unsigned(Strip(s))

\* int(v): ok is FALSE where Python raises ValueError or TypeError
IntOf(v) ==
    CASE v.t = "int" -> [ok |-> TRUE, n |-> v.n]
      [] v.t = "str" -> IntOfStr(v.s)
      [] OTHER -> [ok |-> FALSE, n |-> 0]

FloatOfDigits(negative, body, ds) ==
    IF ds # <<>> /\ AllIn(ds, Digits) /\ CountChar(body, ".") <= 1
    THEN [ok |-> TRUE,
          num |-> IF negative THEN -NatOfDigits(ds) ELSE NatOfDigits(ds),
          scale |-> IF CountChar(body, ".") = 0 THEN 0
                    ELSE Len(body) - (CHOOSE i \in 1..Len(body) : body[i] = ".")]
    ELSE [ok |-> FALSE, num |-> 0, scale |-> 0]

\* float(text): digits with at most one decimal point; num is the digits read as
\* an integer and scale the number of digits after the point (value = num / 10^scale)
FloatOfStr(s) ==
    LET unsigned(b) == IF b # <<>> /\ Head(b) \in {"+", "-"}
                       THEN FloatOfDigits(Head(b) = "-", Tail(b), Remove(Tail(b), "."))
                       ELSE FloatOfDigits(FALSE, b, Remove(b, "."))
    IN  unsigned(Strip(s))

\* float(v)
FloatOf(v) ==
    CASE v.t = "int" -> [ok |-> TRUE, num |-> v.n, scale |-> 0]
      [] v.t = "float" -> [ok |-> TRUE, num |-> v.num, scale |-> v.scale]
      [] v.t = "str" -> FloatOfStr(v.s)
      [] OTHER -> [ok |-> FALSE, num |-> 0, scale |-> 0]

\* a in b, for two strs
IsSubstr(a, b) ==
    \E i \in 0..(Len(b) - Len(a)) : SubSeq(b, i + 1, i + Len(a)) = a

-----------------------------------------------------------------------------
(* api/child_table_utils.py: ChildTableProcessor *)

\* the years frappe.utils.now_datetime().year is taken from
CurrentYears == {2025, 2026}

NoTarget == "<None>"

\* ChildTableProcessor._get_child_table_configs: field_mappings and
\* field_processors keep the insertion order of the Python dicts
MicroEnterpriseTables == <<"project", "address_details", "education", "productivity">>

MicroEnterpriseConfigs ==
    [project |->
        [child_doctype |-> "Project Details",
         required_fields |-> <<"project_name">>,
         field_mappings |-> << <<"projectName", "project_name">>,
                               <<"projectDescription", "project_detials">>,
                               <<"workersCount", "number_of_workers">>,
                               <<"capital", "amount_capital">>,
                               <<"products", "project_detials">>,
                               <<"startDate", NoTarget>>,
                               <<"projectStatus", NoTarget>> >>,
         field_processors |-> << <<"number_of_workers", "process_workers_count">>,
                                 <<"amount_capital", "process_currency_amount">>,
                                 <<"project_detials", "process_project_description">> >>],
     address_details |->
        [child_doctype |-> "Address Details",
         required_fields |-> <<"city_name">>,
         field_mappings |-> << <<"governorate", "city_name">>,
                               <<"district", "directorate_name">>,
                               <<"neighborhood", "district_name">>,
                               <<"street", "district_name_info">> >>,
         defaults |-> [accommodation_type |-> S(<<"O", "w", "n", "e", "d">>)]],
     education |->
        [child_doctype |-> "Employee Education",
         required_fields |-> <<>>,
         field_mappings |-> << <<"qualification", "qualification">>,
                               <<"school_univ", "school_univ">>,
                               <<"level", "level">>,
                               <<"year_of_passing", "year_of_passing">>,
                               <<"class_per", "class_per">>,
                               <<"maj_opt_subj", "maj_opt_subj">> >>,
         field_processors |-> << <<"year_of_passing", "process_graduation_year">> >>,
         array_source |-> "educations"],
     productivity |->
        [child_doctype |-> "Productivity",
         required_fields |-> <<>>,
         field_mappings |-> << <<"quantity", "quantity">>, <<"unit", "unit">> >>,
         field_processors |-> << <<"quantity", "process_quantity">> >>,
         array_source |-> "productions"]]

\* configs.get(self.parent_doctype, {})
_get_child_table_configs(parent_doctype) ==
    IF parent_doctype = "Micro Enterprise Request" THEN MicroEnterpriseConfigs ELSE EmptyDict

\* the table names of configs.get(self.parent_doctype, {}), in order
child_table_names(parent_doctype) ==
    IF parent_doctype = "Micro Enterprise Request" THEN MicroEnterpriseTables ELSE <<>>

\* table_config.get(key, default)
CfgGet(cfg, key, default) == IF key \in DOMAIN cfg THEN cfg[key] ELSE default

_clean_field_value(value) ==
    LET cleaned(text) == IF text # <<>> THEN S(text) ELSE None
    IN  IF value.t = "none" THEN None
        ELSE IF isinstance_str(value) THEN cleaned(Strip(value.s))
        ELSE value

_process_workers_count(value) ==
    LET count(n, text) ==
            IF n.ok THEN (IF n.n < 0 THEN S(<<"0">>) ELSE S(StrOfInt(n.n)))
            ELSE (IF text # <<>> THEN S(text) ELSE None)
    IN  IF ~Truthy(value) THEN None ELSE count(IntOf(value), Strip(StrOf(value)))

_process_currency_amount(value) ==
    LET amount(f) == IF f.ok /\ f.num >= 0 THEN Fl(f.num, f.scale) ELSE None
    IN  IF ~Truthy(value) THEN None
        ELSE amount(FloatOfStr(Strip(Remove(Remove(StrOf(value), ","), " "))))

ProductsPrefix == <<"\n", "\n", "P", "r", "o", "d", "u", "c", "t", "s", ":", " ">>

\* _process_project_description joining the products as the direct path does
_process_project_description_plain(value, form_data) ==
    LET combined(description, products, products_str) ==
            IF Truthy(products) /\ products_str # <<>> /\ ~IsSubstr(products_str, description)
            THEN S(description \o <<"\n", "\n">> \o products_str)
            ELSE IF description # <<>> THEN S(description) ELSE None
    IN  IF ~Truthy(value) THEN None
        ELSE combined(Strip(StrOf(value)), Get(form_data, "products"),
                      Strip(StrOf(Get(form_data, "products"))))

_process_project_description(value, form_data) ==
    LET combined(description, products, products_str) ==
            IF Truthy(products) /\ products_str # <<>> /\ ~IsSubstr(products_str, description)
            THEN S(description \o ProductsPrefix \o products_str)
            ELSE IF description # <<>> THEN S(description) ELSE None
    IN  IF ~Truthy(value) THEN None
        ELSE combined(Strip(StrOf(value)), Get(form_data, "products"),
                      Strip(StrOf(Get(form_data, "products"))))

MinGraduationYear == 1950

GraduationYearSlack == 10

_process_graduation_year(value, current_year) ==
    LET year(n) == IF n.ok /\ MinGraduationYear <= n.n /\ n.n <= current_year + GraduationYearSlack
                   THEN I(n.n) ELSE None
    IN  IF ~Truthy(value) THEN None ELSE year(IntOf(value))

_process_quantity(value) ==
    LET quantity(f) == IF f.ok /\ f.num >= 0 THEN Fl(f.num, f.scale) ELSE None
    IN  IF ~Truthy(value) THEN None
        ELSE quantity(FloatOfStr(Strip(Remove(StrOf(value), ","))))

AddressPart(label, v) == label \o Strip(StrOf(v))

\* ", ".join of the non-blank address parts
RECURSIVE JoinParts(_)
JoinParts(parts) ==
    IF parts = <<>> THEN <<>>
    ELSE IF Len(parts) = 1 THEN parts[1]
         ELSE parts[1] \o <<",", " ">> \o JoinParts(Tail(parts))

_process_address_info(form_data) ==
    LET part(v, label) ==
            IF Truthy(v) /\ Strip(StrOf(v)) # <<>> THEN << AddressPart(label, v) >> ELSE <<>>
        joined(address_parts) ==
            IF address_parts # <<>> THEN S(JoinParts(address_parts)) ELSE None
    IN  joined(part(Get(form_data, "governorate"), <<"P", "r", "o", "v", "i", "n", "c", "e", ":", " ">>)
               \o part(Get(form_data, "district"), <<"D", "i", "s", "t", "r", "i", "c", "t", ":", " ">>)
               \o part(Get(form_data, "neighborhood"),
                       <<"N", "e", "i", "g", "h", "b", "o", "r", "h", "o", "o", "d", ":", " ">>)
               \o part(Get(form_data, "street"), <<"S", "t", "r", "e", "e", "t", ":", " ">>))

\* an unknown processor name passes the value through
_apply_field_processor(processor_method, value, form_data, current_year) ==
    CASE processor_method = "process_workers_count" -> _process_workers_count(value)
      [] processor_method = "process_currency_amount" -> _process_currency_amount(value)
      [] processor_method = "process_project_description" ->
             _process_project_description(value, form_data)
      [] processor_method = "process_address_info" -> _process_address_info(form_data)
      [] processor_method = "process_graduation_year" ->
             _process_graduation_year(value, current_year)
      [] processor_method = "process_quantity" -> _process_quantity(value)
      [] OTHER -> value

\* target_field_sources[doctype_field]: the form fields mapped to it, in order
target_field_sources(field_mappings, doctype_field) ==
    LET hits == SelectSeq(field_mappings, LAMBDA m : m[2] = doctype_field)
    IN  [i \in 1..Len(hits) |-> hits[i][1]]

SeqRange(s) == {s[i] : i \in 1..Len(s)}

\* first loop of _process_single_table over field_processors[i..]: a target that
\* has a source gets the processor's value for the first source, unless it is None
RECURSIVE SingleProcessorPass(_, _, _, _, _, _)
SingleProcessorPass(field_mappings, field_processors, form_data, current_year, i, table_row) ==
    LET set(doctype_field, processed_value) ==
            IF processed_value # None THEN DictSet(table_row, doctype_field, processed_value)
            ELSE table_row
        step(doctype_field, sources) ==
            IF sources = <<>> THEN table_row
            ELSE set(doctype_field,
                     _apply_field_processor(field_processors[i][2], Get(form_data, sources[1]),
                                            form_data, current_year))
    IN  IF i > Len(field_processors) THEN table_row
        ELSE SingleProcessorPass(field_mappings, field_processors, form_data, current_year, i + 1,
                 step(field_processors[i][1],
                      target_field_sources(field_mappings, field_processors[i][1])))

\* processed_fields: every source of a target that has a processor
processed_fields(field_mappings, field_processors) ==
    {m[1] : m \in {x \in SeqRange(field_mappings) :
                     x[2] # NoTarget /\ \E i \in 1..Len(field_processors) : field_processors[i][1] = x[2]}}

\* second loop of _process_single_table, over field_mappings[i..] in order
RECURSIVE SingleDirectPass(_, _, _, _, _)
SingleDirectPass(field_mappings, field_processors, form_data, i, table_row) ==
    LET set(doctype_field, fan_in, existing_value, cleaned_value) ==
            IF cleaned_value = None THEN table_row
            ELSE IF fan_in /\ doctype_field = "project_detials" /\ Truthy(existing_value)
                 THEN DictSet(table_row, doctype_field,
                              S(StrOf(existing_value) \o <<"\n", "\n">> \o StrOf(cleaned_value)))
                 ELSE DictSet(table_row, doctype_field, cleaned_value)
        step(form_field, doctype_field) ==
            IF doctype_field = NoTarget
               \/ form_field \in processed_fields(field_mappings, field_processors)
               \/ ~Has(form_data, form_field)
               \/ Get(form_data, form_field) = None
            THEN table_row
            ELSE set(doctype_field,
                     Len(target_field_sources(field_mappings, doctype_field)) > 1,
                     IF doctype_field \in DOMAIN table_row THEN table_row[doctype_field] ELSE S(<<>>),
                     _clean_field_value(Get(form_data, form_field)))
    IN  IF i > Len(field_mappings) THEN table_row
        ELSE SingleDirectPass(field_mappings, field_processors, form_data, i + 1,
                              step(field_mappings[i][1], field_mappings[i][2]))

\* first loop over a row of _process_array_table, over field_processors[i..]: the
\* source is the first form field mapped to the target
RECURSIVE ArrayProcessorPass(_, _, _, _, _, _)
ArrayProcessorPass(field_mappings, field_processors, row_data, current_year, i, table_row) ==
    LET set(doctype_field, processed_value) ==
            IF processed_value # None THEN DictSet(table_row, doctype_field, processed_value)
            ELSE table_row
        step(doctype_field, sources) ==
            IF sources = <<>> \/ ~Has(row_data, sources[1]) THEN table_row
            ELSE set(doctype_field,
                     _apply_field_processor(field_processors[i][2], Get(row_data, sources[1]),
                                            row_data, current_year))
    IN  IF i > Len(field_processors) THEN table_row
        ELSE ArrayProcessorPass(field_mappings, field_processors, row_data, current_year, i + 1,
                 step(field_processors[i][1],
                      target_field_sources(field_mappings, field_processors[i][1])))

\* second loop over a row of _process_array_table, over field_mappings[i..]
RECURSIVE ArrayDirectPass(_, _, _, _)
ArrayDirectPass(field_mappings, row_data, i, table_row) ==
    LET set(doctype_field, cleaned_value) ==
            IF cleaned_value = None THEN table_row
            ELSE DictSet(table_row, doctype_field, cleaned_value)
        step(form_field, doctype_field) ==
            IF doctype_field = NoTarget \/ doctype_field \in DOMAIN table_row
               \/ ~Has(row_data, form_field) \/ Get(row_data, form_field) = None
            THEN table_row
            ELSE set(doctype_field, _clean_field_value(Get(row_data, form_field)))
    IN  IF i > Len(field_mappings) THEN table_row
        ELSE ArrayDirectPass(field_mappings, row_data, i + 1,
                             step(field_mappings[i][1], field_mappings[i][2]))

\* one row of _process_array_table for a dict element
ArrayRow(table_config, row_data, current_year) ==
    DictUpdate(ArrayDirectPass(CfgGet(table_config, "field_mappings", <<>>), row_data, 1,
                   ArrayProcessorPass(CfgGet(table_config, "field_mappings", <<>>),
                                      CfgGet(table_config, "field_processors", <<>>),
                                      row_data, current_year, 1, EmptyDict)),
               CfgGet(table_config, "defaults", EmptyDict))

\* _process_array_table without the `continue` of line 235: an element that is
\* no mapping leaves an empty row in the list
_process_array_table_keeping_all(table_config, array_data, current_year) ==
    IF ~Truthy(array_data) \/ ~isinstance_list(array_data) THEN None
    ELSE L([i \in 1..Len(array_data.l) |->
               IF array_data.l[i].t = "dict"
               THEN ArrayRow(table_config, array_data.l[i].d, current_year)
               ELSE EmptyDict])

_process_array_table(table_config, array_data, current_year) ==
    LET rows_or_none(processed_rows) == IF processed_rows # <<>> THEN L(processed_rows) ELSE None
    IN  IF ~Truthy(array_data) \/ ~isinstance_list(array_data) THEN None
        ELSE rows_or_none(SelectSeq([i \in 1..Len(array_data.l) |->
                                  IF array_data.l[i].t = "dict"
                                  THEN ArrayRow(table_config, array_data.l[i].d, current_year)
                                  ELSE EmptyDict],
                              LAMBDA r : DOMAIN r # {}))

\* _process_single_table with all() for the any() of line 204
_process_single_table_all_required(table_config, form_data, current_year) ==
    LET row_or_none(required_fields, table_row) ==
            IF required_fields # <<>>
               /\ ~\A i \in 1..Len(required_fields) :
                      /\ required_fields[i] \in DOMAIN table_row
                      /\ Truthy(table_row[required_fields[i]])
            THEN None
            ELSE IF DOMAIN table_row # {} THEN L(<<table_row>>) ELSE None
        single(field_mappings, field_processors) ==
            row_or_none(CfgGet(table_config, "required_fields", <<>>),
                   DictUpdate(SingleDirectPass(field_mappings, field_processors, form_data, 1,
                                  SingleProcessorPass(field_mappings, field_processors, form_data,
                                                      current_year, 1, EmptyDict)),
                              CfgGet(table_config, "defaults", EmptyDict)))
    IN  IF "array_source" \in DOMAIN table_config /\ Has(form_data, table_config.array_source)
        THEN _process_array_table(table_config, Get(form_data, table_config.array_source), current_year)
        ELSE single(CfgGet(table_config, "field_mappings", <<>>),
                    CfgGet(table_config, "field_processors", <<>>))

_process_single_table(table_config, form_data, current_year) ==
    LET row_or_none(required_fields, table_row) ==
            IF required_fields # <<>>
               /\ ~\E i \in 1..Len(required_fields) :
                      /\ required_fields[i] \in DOMAIN table_row
                      /\ Truthy(table_row[required_fields[i]])
            THEN None
            ELSE IF DOMAIN table_row # {} THEN L(<<table_row>>) ELSE None
        single(field_mappings, field_processors) ==
            row_or_none(CfgGet(table_config, "required_fields", <<>>),
                   DictUpdate(SingleDirectPass(field_mappings, field_processors, form_data, 1,
                                  SingleProcessorPass(field_mappings, field_processors, form_data,
                                                      current_year, 1, EmptyDict)),
                              CfgGet(table_config, "defaults", EmptyDict)))
    IN  IF "array_source" \in DOMAIN table_config /\ Has(form_data, table_config.array_source)
        THEN _process_array_table(table_config, Get(form_data, table_config.array_source), current_year)
        ELSE single(CfgGet(table_config, "field_mappings", <<>>),
                    CfgGet(table_config, "field_processors", <<>>))

\* process_child_tables without the `if table_data:` test of line 121
process_child_tables_unfiltered(parent_doctype, form_data, current_year) ==
    LET names == child_table_names(parent_doctype)
    IN  [n \in {names[i] : i \in 1..Len(names)} |->
            _process_single_table(MicroEnterpriseConfigs[n], form_data, current_year)]

\* ChildTableProcessor(parent_doctype).process_child_tables(form_data); none of
\* the configured tables declares a "condition"
process_child_tables(parent_doctype, form_data, current_year) ==
    LET kept(table_data) == [n \in {m \in DOMAIN table_data : Truthy(table_data[m])} |->
                                table_data[n]]
    IN  kept([n \in SeqRange(child_table_names(parent_doctype)) |->
                 _process_single_table(MicroEnterpriseConfigs[n], form_data, current_year)])

\* errors of one row of validate_child_table_data, in the order they are appended
ChildRowErrors(child_table_configs, table_name, row, current_year) ==
    LET val(f) == IF f \in DOMAIN row THEN row[f] ELSE None
        missing(required_fields) ==
            LET m == SelectSeq(required_fields, LAMBDA f : ~(f \in DOMAIN row /\ Truthy(row[f])))
            IN  [i \in 1..Len(m) |-> <<"Field '{0}' is required", m[i]>>]
        not_number(value, n, msg) ==
            IF value # None /\ ~n.ok THEN << <<msg>> >> ELSE <<>>
        bad_year(value, n) ==
            IF value = None THEN <<>>
            ELSE IF ~n.ok THEN << <<"Graduation year must be a valid number">> >>
            ELSE IF ~(MinGraduationYear <= n.n /\ n.n <= current_year + GraduationYearSlack)
                 THEN << <<"Graduation year must be between 1950 and current year">> >>
                 ELSE <<>>
    IN  missing(CfgGet(CfgGet(child_table_configs, table_name, EmptyDict), "required_fields", <<>>))
        \o (IF table_name = "project"
            THEN not_number(val("amount_capital"), FloatOf(val("amount_capital")),
                            "Capital amount must be a valid number")
                 \o not_number(val("number_of_workers"), IntOf(val("number_of_workers")),
                               "Number of workers must be a valid number")
            ELSE <<>>)
        \o (IF table_name = "education"
            THEN bad_year(val("year_of_passing"), IntOf(val("year_of_passing")))
            ELSE <<>>)

\* validate_child_table_data(table_name, table_data) of a processor whose
\* child_table_configs are given: the errors dict, keyed by
\* <<table, "_row_", index>> for f"{table_name}_row_{idx}" (index from 0)
validate_table_rows(child_table_configs, table_name, table_data, current_year) ==
    LET errors(row_errors) ==
            [k \in {<<table_name, "_row_", i - 1>> : i \in {j \in DOMAIN row_errors : row_errors[j] # <<>>}}
                |-> row_errors[k[3] + 1]]
    IN  IF ~Truthy(table_data) THEN EmptyDict
        ELSE errors([i \in 1..Len(table_data.l) |->
                        ChildRowErrors(child_table_configs, table_name, table_data.l[i], current_year)])

\* ChildTableProcessor(parent_doctype).validate_child_table_data(table_name, table_data)
validate_child_table_data(parent_doctype, table_name, table_data, current_year) ==
    validate_table_rows(_get_child_table_configs(parent_doctype), table_name, table_data, current_year)

-----------------------------------------------------------------------------
(* api/field_mapping.py: ValidationHelper *)

EmailLocalChars == Letters \cup Digits \cup {".", "_", "%", "+", "-"}

EmailDomainChars == Letters \cup Digits \cup {".", "-"}

PhoneChars == Digits \cup {"+", "-", "(", ")"} \cup Whitespace

\* re.match(r'^[a-zA-Z0-9._%+-]+@[a-zA-Z0-9.-]+\.[a-zA-Z]{2,}$', s)
MatchesStrictEmail(s) ==
    /\ CountChar(s, "@") = 1
    /\ LET at == CHOOSE i \in 1..Len(s) : s[i] = "@"
       IN  /\ at > 1
           /\ AllIn(SubSeq(s, 1, at - 1), EmailLocalChars)
           /\ \E j \in (at + 2)..(Len(s) - 2) :
                 /\ s[j] = "."
                 /\ AllIn(SubSeq(s, at + 1, j - 1), EmailDomainChars)
                 /\ AllIn(SubSeq(s, j + 1, Len(s)), Letters)

\* re.match(r'^[^@]+@[^@]+\.[^@]+$', s)
MatchesSimpleEmail(s) ==
    /\ CountChar(s, "@") = 1
    /\ LET at == CHOOSE i \in 1..Len(s) : s[i] = "@"
       IN  at > 1 /\ \E j \in (at + 2)..(Len(s) - 1) : s[j] = "."

\* ValidationHelper.validate_email: the error message, or None when valid
validate_email(email) ==
    IF ~Truthy(email) \/ Strip(email.s) = <<>> \/ MatchesStrictEmail(Strip(email.s))
    THEN None ELSE S(<<"Invalid email format">>)

PhoneMinLength == 7

\* ValidationHelper.validate_phone(phone, min_length=7)
validate_phone(phone) ==
    LET checked(phone_str) ==
            IF Len(phone_str) < PhoneMinLength
            THEN S(<<"Phone number must be at least {0} digits", PhoneMinLength>>)
            ELSE IF ~AllIn(phone_str, PhoneChars)
                 THEN S(<<"Phone number contains invalid characters">>)
                 ELSE None
    IN  IF ~Truthy(phone) THEN S(<<"Phone number is required">>)
        ELSE checked(Strip(StrOf(phone)))

\* ValidationHelper.validate_age(age, min_age, max_age)
validate_age(age, min_age, max_age) ==
    LET checked(age_int) ==
            IF ~age_int.ok THEN S(<<"Age must be a valid number">>)
            ELSE IF age_int.n < min_age \/ age_int.n > max_age
                 THEN S(<<"Age must be between {0} and {1}", min_age, max_age>>)
                 ELSE None
    IN  IF ~Truthy(age) THEN S(<<"Age is required">>) ELSE checked(IntOf(age))

\* ValidationHelper.validate_currency(amount, allow_negative=False)
validate_currency(amount) ==
    LET checked(amount_float) ==
            IF ~amount_float.ok THEN S(<<"Amount must be a valid number">>)
            ELSE IF amount_float.num < 0 THEN S(<<"Amount must be a positive number">>)
                 ELSE None
    IN  IF ~Truthy(amount) THEN S(<<"Amount is required">>)
        ELSE checked(FloatOfStr(Strip(Remove(Remove(StrOf(amount), ","), " "))))

\* ValidationHelper.validate_required_field(value, field_name)
validate_required_field(value, field_name) ==
    IF value = None \/ Strip(StrOf(value)) = <<>>
    THEN S(<<"{0} is required", field_name>>) ELSE None

-----------------------------------------------------------------------------
(* api/processors.py: the processors' validate_form_data *)

FORM_DOCTYPE_MAPPING ==
    [x \in {"small-project-register", "training-program", "volunteer-program",
            "training-service", "training-ad", "promote-project",
            "specs-memo-request", "contract-opportunity", "contact-form"} |->
        CASE x = "small-project-register" -> "Micro Enterprise Request"
          [] x = "training-program" -> "Training Registration"
          [] x = "volunteer-program" -> "Volunteer Application"
          [] x = "training-service" -> "Training Service Request"
          [] x = "training-ad" -> "Training Advertisement"
          [] x = "promote-project" -> "Project Promotion Request"
          [] x = "specs-memo-request" -> "Specification Memo Request"
          [] x = "contract-opportunity" -> "Contract Opportunity"
          [] x = "contact-form" -> "Contact Inquiry"]

\* the required_fields list of each validator: <<field, label>>
required_fields(form_type) ==
    CASE form_type = "small-project-register" ->
            << <<"ownerFullName", "Owner Full Name">>, <<"governorate", "Governorate">>,
               <<"district", "District">>, <<"neighborhood", "Neighborhood">>,
               <<"street", "Street">>, <<"age", "Age">>,
               <<"primaryPhone", "Primary Phone">>, <<"email", "Email">>,
               <<"projectName", "Project Name">>, <<"projectStatus", "Project Status">>,
               <<"capital", "Capital">>, <<"workersCount", "Workers Count">>,
               <<"startDate", "Start Date">>, <<"products", "Products">>,
               <<"projectDescription", "Project Description">> >>
      [] form_type \in {"training-program", "training-ad"} ->
            << <<"fullName", "Full Name">>, <<"phone", "Phone">>, <<"city", "City">>,
               <<"age", "Age">> >>
      [] form_type = "volunteer-program" ->
            << <<"fullName", "Full Name">>, <<"phone", "Phone">>, <<"city", "City">>,
               <<"age", "Age">>, <<"favField", "Favorite Field">> >>
      [] form_type = "training-service" ->
            << <<"fullName", "Full Name">>, <<"phone", "Phone">>, <<"city", "City">>,
               <<"age", "Age">>, <<"trainingFields", "Training Fields">> >>
      [] form_type = "promote-project" ->
            << <<"projectName", "Project Name">>,
               <<"projectDescription", "Project Description">> >>
      [] form_type = "specs-memo-request" ->
            << <<"projectType", "Project Type">>, <<"projectName", "Project Name">>,
               <<"projectStatus", "Project Status">>, <<"startDate", "Start Date">>,
               <<"capital", "Capital">>, <<"location", "Location">>,
               <<"ownerName", "Owner Name">>, <<"gender", "Gender">>,
               <<"birthDate", "Birth Date">>, <<"educationLevel", "Education Level">>,
               <<"currentAddress", "Current Address">>, <<"phone", "Phone">> >>
      [] form_type = "contract-opportunity" ->
            << <<"fullName", "Full Name">>, <<"phone", "Phone">>, <<"email", "Email">>,
               <<"specialization", "Specialization">>,
               <<"experienceYears", "Experience Years">>, <<"field", "Field">>,
               <<"cvFile", "CV File">> >>
      [] form_type = "contact-form" ->
            << <<"fullName", "Full Name">>, <<"phone", "Phone">>,
               <<"subject", "Subject">>, <<"message", "Message">> >>

\* errors["field_errors"][field] = [msg] when cond
SetError(field_errors, cond, field, msg) ==
    IF cond THEN DictSet(field_errors, field, <<msg>>) ELSE field_errors

\* `not value or (isinstance(value, str) and not value.strip())`
IsBlank(value) == ~Truthy(value) \/ (isinstance_str(value) /\ Strip(value.s) = <<>>)

\* the required-field loop of every processor but SmallProjectProcessor
RequiredFieldErrors(form_type, form_data) ==
    LET missing(field, value) ==
            IF form_type = "training-service" /\ field = "trainingFields"
            THEN ~Truthy(value) \/ ~isinstance_list(value)
            ELSE IsBlank(value)
        msg(field, label) ==
            IF form_type = "training-service" /\ field = "trainingFields"
            THEN <<"At least one training field must be selected">>
            ELSE <<"{0} is required", label>>
        errors(rf) ==
            [f \in {rf[i][1] : i \in {j \in 1..Len(rf) : missing(rf[j][1], Get(form_data, rf[j][1]))}} |->
                << msg(f, rf[CHOOSE i \in 1..Len(rf) : rf[i][1] = f][2]) >>]
    IN  errors(required_fields(form_type))

MinTrainingAge == 16

MaxAge == 100

MinPhoneDigits == 9

\* "# Age validation" of the training and volunteer processors
AgeErrors(field_errors, form_data) ==
    LET checked(age_int) ==
            IF ~age_int.ok
            THEN DictSet(field_errors, "age", << <<"Age must be a valid number">> >>)
            ELSE SetError(field_errors, age_int.n < MinTrainingAge \/ age_int.n > MaxAge,
                          "age", <<"Age must be between 16 and 100">>)
    IN  IF ~Truthy(Get(form_data, "age")) THEN field_errors
        ELSE checked(IntOf(Get(form_data, "age")))

\* "# Phone validation": len(re.sub(r'[^\d+]', '', phone)) < 9
PhoneErrors(field_errors, form_data) ==
    LET phone == Get(form_data, "phone")
    IN  SetError(field_errors,
                 Truthy(phone) /\ Len(Keep(phone.s, Digits \cup {"+"})) < MinPhoneDigits,
                 "phone", <<"Phone number must be at least 9 digits">>)

\* re.sub and re.match raise TypeError, and .strip() AttributeError, on a value
\* that is truthy and no str
RaisesOnNonStr(value) == Truthy(value) /\ ~isinstance_str(value)

\* (is_valid, errors) of a validator, with the form_data it leaves behind;
\* exc when the validator raises instead of returning
Validated(field_errors, child_table_errors, form_data) ==
    [exc |-> FALSE,
     valid |-> DOMAIN field_errors = {} /\ DOMAIN child_table_errors = {},
     errors |-> [k \in (IF DOMAIN field_errors = {} THEN {} ELSE {"field_errors"})
                       \cup (IF DOMAIN child_table_errors = {} THEN {} ELSE {"child_table_errors"}) |->
                    IF k = "field_errors" THEN field_errors ELSE child_table_errors],
     form_data |-> form_data]

ValidatorRaised(form_data) ==
    [exc |-> TRUE, valid |-> FALSE, errors |-> EmptyDict, form_data |-> form_data]

\* TrainingProgramProcessor, VolunteerProgramProcessor and TrainingAdProcessor
TrainingProgram_validate_form_data(form_type, form_data) ==
    IF RaisesOnNonStr(Get(form_data, "phone")) THEN ValidatorRaised(form_data)
    ELSE Validated(PhoneErrors(AgeErrors(RequiredFieldErrors(form_type, form_data), form_data),
                               form_data),
                   EmptyDict, form_data)

ValidTrainingFields == {S(<<"[ar] food manufacturing">>), S(<<"[ar] sewing">>),
                        S(<<"[ar] crafts">>), S(<<"[ar] entrepreneurship">>),
                        S(<<"[ar] vocational training for small project owners">>)}

\* the elements a for-loop over the value visits: a str yields its characters
IterItems(v) ==
    IF v.t = "str" THEN {S(<<v.s[i]>>) : i \in 1..Len(v.s)}
    ELSE IF v.t = "list" THEN SeqRange(v.l) ELSE {}

TrainingService_validate_form_data(form_type, form_data) ==
    LET training_fields == Get(form_data, "trainingFields")
        invalid_fields == IterItems(training_fields) \ ValidTrainingFields
        base == PhoneErrors(AgeErrors(RequiredFieldErrors(form_type, form_data), form_data),
                            form_data)
    IN  IF RaisesOnNonStr(Get(form_data, "phone"))
           \/ (Truthy(training_fields) /\ training_fields.t \notin {"str", "list"})
           \/ \E x \in invalid_fields : ~isinstance_str(x)   \* ", ".join raises
        THEN ValidatorRaised(form_data)
        ELSE Validated(SetError(base, Truthy(training_fields) /\ invalid_fields # {},
                                "trainingFields", <<"Invalid training fields: {0}">>),
                       EmptyDict, form_data)

\* float(re.sub(r'[^\d.]', '', text)) raises ValueError
DigitsAndDotNotFloat(text) == ~FloatOfStr(Keep(text, Digits \cup {"."})).ok

BusinessService_validate_promote_project(form_type, form_data) ==
    LET price == Get(form_data, "price")
        base == RequiredFieldErrors(form_type, form_data)
    IN  IF RaisesOnNonStr(price) THEN ValidatorRaised(form_data)
        ELSE Validated(SetError(base,
                                Truthy(price) /\ Strip(price.s) # <<>> /\ DigitsAndDotNotFloat(price.s),
                                "price", <<"Price must be a valid number">>),
                       EmptyDict, form_data)

ValidProjectTypes == {S(<<"[ar] small">>), S(<<"[ar] micro">>),
                      S(<<"[ar] small project being founded">>)}

ValidStatuses == {S(<<"[ar] active">>), S(<<"[ar] inactive">>)}

ValidGenders == {S(<<"[ar] male">>), S(<<"[ar] female">>)}

ValidEducationLevels == {S(<<"[ar] school">>), S(<<"[ar] university">>), S(<<"[ar] institute">>)}

\* `value and value not in valid` with its error
ChoiceError(field_errors, form_data, field, valid, msg) ==
    SetError(field_errors, Truthy(Get(form_data, field)) /\ Get(form_data, field) \notin valid,
             field, <<msg>>)

BusinessService_validate_specs_memo_request(form_type, form_data) ==
    LET capital == Get(form_data, "capital")
        e1 == ChoiceError(RequiredFieldErrors(form_type, form_data), form_data,
                          "projectType", ValidProjectTypes, "Invalid project type. Must be one of: {0}")
        e2 == ChoiceError(e1, form_data, "projectStatus", ValidStatuses,
                          "Invalid project status. Must be one of: {0}")
        e3 == ChoiceError(e2, form_data, "gender", ValidGenders, "Invalid gender. Must be one of: {0}")
        e4 == ChoiceError(e3, form_data, "educationLevel", ValidEducationLevels,
                          "Invalid education level. Must be one of: {0}")
        e5 == PhoneErrors(e4, form_data)
    IN  IF RaisesOnNonStr(Get(form_data, "phone")) THEN ValidatorRaised(form_data)
        ELSE Validated(SetError(e5,
                                Truthy(capital)
                                /\ (~isinstance_str(capital) \/ DigitsAndDotNotFloat(capital.s)),
                                "capital", <<"Capital must be a valid number">>),
                       EmptyDict, form_data)

MaxExperienceYears == 50

BusinessService_validate_contract_opportunity(form_type, form_data) ==
    LET email_checked(field_errors, email) ==
            SetError(field_errors, Truthy(email) /\ ~MatchesSimpleEmail(email.s),
                     "email", <<"Invalid email format">>)
        experience_checked(field_errors, experience_years, years_int) ==
            IF ~Truthy(experience_years) THEN field_errors
            ELSE IF ~years_int.ok
                 THEN DictSet(field_errors, "experienceYears",
                              << <<"Experience years must be a valid number">> >>)
                 ELSE SetError(field_errors,
                               years_int.n < 0 \/ years_int.n > MaxExperienceYears,
                               "experienceYears", <<"Experience years must be between 0 and 50">>)
    IN  IF RaisesOnNonStr(Get(form_data, "email")) \/ RaisesOnNonStr(Get(form_data, "phone"))
        THEN ValidatorRaised(form_data)
        ELSE Validated(
                 experience_checked(
                     PhoneErrors(email_checked(RequiredFieldErrors(form_type, form_data),
                                               Get(form_data, "email")),
                                 form_data),
                     Get(form_data, "experienceYears"), IntOf(Get(form_data, "experienceYears"))),
                 EmptyDict, form_data)

BusinessService_validate_contact_form(form_type, form_data) ==
    LET email == Get(form_data, "email")
        e1 == SetError(RequiredFieldErrors(form_type, form_data),
                       Truthy(email) /\ Strip(email.s) # <<>> /\ ~MatchesSimpleEmail(email.s),
                       "email", <<"Invalid email format">>)
    IN  IF RaisesOnNonStr(email) \/ RaisesOnNonStr(Get(form_data, "phone"))
        THEN ValidatorRaised(form_data)
        ELSE Validated(PhoneErrors(e1, form_data), EmptyDict, form_data)

\* status_mapping of SmallProjectProcessor.validate_form_data
StatusIdea == S(<<"[ar] idea stage">>)

StatusInProgress == S(<<"[ar] in progress">>)

StatusEstablished == S(<<"[ar] established">>)

\* status_mapping with every label kept as it is
status_mapping_kept == [x \in {StatusIdea, StatusInProgress, StatusEstablished} |-> x]

status_mapping ==
    [x \in {StatusIdea, StatusInProgress, StatusEstablished} |->
        IF x = StatusEstablished THEN S(<<"A", "p", "p", "r", "o", "v", "e", "d">>)
        ELSE S(<<"O", "p", "e", "n">>)]

DocStatuses == {S(<<"O", "p", "e", "n">>), S(<<"A", "p", "p", "r", "o", "v", "e", "d">>),
                S(<<"R", "e", "j", "e", "c", "t", "e", "d">>),
                S(<<"C", "a", "n", "c", "e", "l", "l", "e", "d">>)}

MinProjectAge == 18

\* SmallProjectProcessor.validate_form_data; a recognised status label is
\* replaced in form_data by its internal code
SmallProject_validate_form_data(form_type, form_data, current_year) ==
    LET required(rf, errors) ==
            [f \in {rf[i][1] : i \in {j \in 1..Len(rf) : errors[j] # None}} |->
                << errors[CHOOSE i \in 1..Len(rf) : rf[i][1] = f].s >>]
        required_checked(rf) ==
            required(rf, [i \in 1..Len(rf) |->
                             validate_required_field(Get(form_data, rf[i][1]), rf[i][2])])
        \* `if value and not is_valid: field_errors[field] = [error]`
        checked(field_errors, value, field, error) ==
            IF Truthy(value) /\ error # None THEN DictSet(field_errors, field, << error.s >>)
            ELSE field_errors
        workers_checked(field_errors, workers_count, workers_int) ==
            IF ~Truthy(workers_count) THEN field_errors
            ELSE IF ~workers_int.ok
                 THEN DictSet(field_errors, "workersCount",
                              << <<"Workers count must be a valid number">> >>)
                 ELSE SetError(field_errors, workers_int.n < 0, "workersCount",
                               <<"Workers count must be a positive number">>)
        status_checked(field_errors, project_status) ==
            SetError(field_errors,
                     Truthy(project_status) /\ project_status \notin DOMAIN status_mapping
                     /\ project_status \notin DocStatuses,
                     "projectStatus", <<"Invalid project status. Must be one of: {0}">>)
        status_mapped(project_status) ==
            IF Truthy(project_status) /\ project_status \in DOMAIN status_mapping
            THEN DictSet(form_data, "projectStatus", status_mapping[project_status])
            ELSE form_data
        merged(table_errors) ==
            [k \in UNION {DOMAIN table_errors[n] : n \in DOMAIN table_errors} |-> table_errors[k[1]][k]]
        child_checked(doctype, child_tables) ==
            merged([n \in DOMAIN child_tables |->
                       validate_child_table_data(doctype, n, child_tables[n], current_year)])
        finished(field_errors, doctype, mapped_form_data) ==
            Validated(field_errors,
                      child_checked(doctype, process_child_tables(doctype, mapped_form_data, current_year)),
                      mapped_form_data)
    IN  IF RaisesOnNonStr(Get(form_data, "email"))
           \/ (Truthy(Get(form_data, "projectStatus"))
               /\ Get(form_data, "projectStatus").t \in {"list", "dict"})
        THEN ValidatorRaised(form_data)
        ELSE finished(
                 status_checked(
                     checked(
                         workers_checked(
                             checked(
                                 checked(
                                     checked(required_checked(required_fields(form_type)),
                                             Get(form_data, "email"), "email",
                                             validate_email(Get(form_data, "email"))),
                                     Get(form_data, "age"), "age",
                                     validate_age(Get(form_data, "age"), MinProjectAge, MaxAge)),
                                 Get(form_data, "capital"), "capital",
                                 validate_currency(Get(form_data, "capital"))),
                             Get(form_data, "workersCount"), IntOf(Get(form_data, "workersCount"))),
                         Get(form_data, "primaryPhone"), "primaryPhone",
                         validate_phone(Get(form_data, "primaryPhone"))),
                     Get(form_data, "projectStatus")),
                 FORM_DOCTYPE_MAPPING[form_type],
                 status_mapped(Get(form_data, "projectStatus")))

\* processor.validate_form_data(form_data) of the processor get_form_processor returns
validate_form_data(form_type, form_data, current_year) ==
    CASE form_type = "small-project-register" ->
            SmallProject_validate_form_data(form_type, form_data, current_year)
      [] form_type \in {"training-program", "volunteer-program", "training-ad"} ->
            TrainingProgram_validate_form_data(form_type, form_data)
      [] form_type = "training-service" -> TrainingService_validate_form_data(form_type, form_data)
      [] form_type = "promote-project" -> BusinessService_validate_promote_project(form_type, form_data)
      [] form_type = "specs-memo-request" ->
            BusinessService_validate_specs_memo_request(form_type, form_data)
      [] form_type = "contract-opportunity" ->
            BusinessService_validate_contract_opportunity(form_type, form_data)
      [] form_type = "contact-form" -> BusinessService_validate_contact_form(form_type, form_data)

-----------------------------------------------------------------------------
(* api/processors.py: TokenValidator *)

TokenMinLen == 5

TokenChars == Letters \cup Digits \cup {"_", "-"}

\* TokenValidator.validate_token_format: None when the format is accepted,
\* otherwise the error message
validate_token_format(token_id) ==
    IF ~Truthy(token_id) THEN S(<<"Token ID is required">>)
    ELSE IF ~isinstance_str(token_id) THEN S(<<"Token ID must be a string">>)
    ELSE IF Len(Strip(token_id.s)) < TokenMinLen
    THEN S(<<"Token ID must be at least 5 characters long">>)
    ELSE IF ~AllIn(Strip(token_id.s), TokenChars)
    THEN S(<<"Token ID contains invalid characters">>)
    ELSE None

\* frappe.db.get_value(doctype, {"token_id": key}, "name"): the positions in the
\* store of the records of that type whose token_id field equals key
get_value(st, doctype, key) ==
    {i \in 1..Len(st) : /\ st[i].doctype = doctype
                        /\ "token_id" \in DOMAIN st[i].fields
                        /\ st[i].fields["token_id"] = key}

\* check_duplicate_token looking the token up as given, without .strip()
check_duplicate_token_unstripped(token_id, doctype, st, db_raises) ==
    IF ~Truthy(token_id) \/ db_raises \/ get_value(st, doctype, token_id) = {}
    THEN [is_duplicate |-> FALSE, existing_record |-> None]
    ELSE [is_duplicate |-> TRUE,
          existing_record |-> st[CHOOSE i \in get_value(st, doctype, token_id) : TRUE].name]

\* TokenValidator.check_duplicate_token; db_raises is the database collaborator
\* raising inside the lookup, which the code swallows
check_duplicate_token(token_id, doctype, st, db_raises) ==
    IF ~Truthy(token_id) THEN [is_duplicate |-> FALSE, existing_record |-> None]
    ELSE IF db_raises THEN [is_duplicate |-> FALSE, existing_record |-> None]
    ELSE LET found == get_value(st, doctype, S(Strip(token_id.s)))
         IN  IF found = {} THEN [is_duplicate |-> FALSE, existing_record |-> None]
             ELSE [is_duplicate |-> TRUE,
                   existing_record |-> st[CHOOSE i \in found : \A j \in found : i <= j].name]

\* TokenValidator.handle_duplicate_token
handle_duplicate_token(token_id, doctype, st, db_raises) ==
    LET chk == check_duplicate_token(token_id, doctype, st, db_raises)
    IN  IF chk.is_duplicate
        THEN [is_duplicate |-> TRUE, existing_record |-> chk.existing_record,
              message |-> S(<<"This token has already been used for registration">>),
              action |-> "rejected"]
        ELSE [is_duplicate |-> FALSE, existing_record |-> None,
              message |-> S(<<"Token is valid and unique">>), action |-> "proceed"]

\* validate_token_id without the duplicate check
validate_token_id_format_only(token_id, doctype, dts, st, db_raises) ==
    IF ~Truthy(token_id) \/ validate_token_format(token_id) = None
    THEN [is_valid |-> TRUE, error |-> None, is_duplicate |-> FALSE]
    ELSE [is_valid |-> FALSE, error |-> validate_token_format(token_id), is_duplicate |-> FALSE]

\* BaseFormProcessor.validate_token_id: [is_valid, error]
validate_token_id(token_id, doctype, dts, st, db_raises) ==
    IF ~Truthy(token_id) THEN [is_valid |-> TRUE, error |-> None, is_duplicate |-> FALSE]
    ELSE LET format_error == validate_token_format(token_id)
         IN  IF format_error # None
             THEN [is_valid |-> FALSE, error |-> format_error, is_duplicate |-> FALSE]
             ELSE IF doctype \in dts
             THEN LET duplicate_info == handle_duplicate_token(token_id, doctype, st, db_raises)
                  IN  IF duplicate_info.is_duplicate
                      THEN [is_valid |-> FALSE, error |-> duplicate_info.message,
                            is_duplicate |-> TRUE]
                      ELSE [is_valid |-> TRUE, error |-> None, is_duplicate |-> FALSE]
             ELSE [is_valid |-> TRUE, error |-> None, is_duplicate |-> FALSE]

-----------------------------------------------------------------------------
(* api/field_mapping.py: FieldMapper, and the processors' map_form_fields *)

\* FieldMappingConfig.MAPPINGS["small-project-register"]["main_fields"], in order
main_fields ==
    << <<"ownerFullName", "family_name">>, <<"firstName", "first_name">>,
       <<"middleName", "middle_name">>, <<"lastName", "last_name">>,
       <<"gender", "gender">>, <<"age", "age">>, <<"birthDate", "date_of_birth">>,
       <<"workJoinDate", "date_of_joining">>, <<"primaryPhone", "cell_number">>,
       <<"secondaryPhone", "emergency_phone_number">>, <<"email", "personal_email">>,
       <<"emergencyContactName", "person_to_be_contacted">>,
       <<"emergencyContactPhone", "emergency_phone_number">>,
       <<"emergencyRelation", "relation">>, <<"projectName", "project_name">>,
       <<"projectDescription", "project_detials">>, <<"projectStatus", "status">>,
       <<"familyInfo", "family_background">>, <<"idNumber", "token_id">>,
       <<"governorate", "governorate">>, <<"district", "district">>,
       <<"neighborhood", "neighborhood">>, <<"street", "street">>,
       <<"capital", "capital">>, <<"workersCount", "workersCount">>,
       <<"startDate", "startDate">>, <<"products", "products">> >>

RECURSIVE MapMainFrom(_, _, _)
MapMainFrom(form_data, i, mapped_data) ==
    IF i > Len(main_fields) THEN mapped_data
    ELSE LET form_field == main_fields[i][1]
             doctype_field == main_fields[i][2]
             value == Get(form_data, form_field)
         IN  IF Has(form_data, form_field) /\ value # None
             THEN IF isinstance_str(value)
                  THEN IF Strip(value.s) # <<>>
                       THEN MapMainFrom(form_data, i + 1,
                                        DictSet(mapped_data, doctype_field, S(Strip(value.s))))
                       ELSE MapMainFrom(form_data, i + 1, mapped_data)
                  ELSE MapMainFrom(form_data, i + 1, DictSet(mapped_data, doctype_field, value))
             ELSE MapMainFrom(form_data, i + 1, mapped_data)

\* FieldMapper._map_main_fields
_map_main_fields(form_data) == MapMainFrom(form_data, 1, EmptyDict)

MaxComputedAge == 150

\* FieldMapper._age_to_birth_date
_age_to_birth_date(age, current_year) ==
    IF ~Truthy(age) THEN None
    ELSE LET age_int == IntOf(age)
         IN  IF age_int.ok /\ 0 < age_int.n /\ age_int.n <= MaxComputedAge
             THEN S(StrOfInt(current_year - age_int.n) \o <<"-", "0", "1", "-", "0", "1">>)
             ELSE None

RECURSIVE FirstWord(_)
FirstWord(s) == IF s = <<>> \/ Head(s) \in Whitespace THEN <<>> ELSE <<Head(s)>> \o FirstWord(Tail(s))

\* FieldMapper._extract_first_name
_extract_first_name(full_name) ==
    IF ~Truthy(full_name) THEN None
    ELSE LET text == Strip(StrOf(full_name))
         IN  IF text = <<>> THEN None ELSE S(FirstWord(text))

\* FieldMapper._copy_full_name
_copy_full_name(full_name) ==
    IF ~Truthy(full_name) THEN None
    ELSE IF Strip(StrOf(full_name)) = <<>> THEN None ELSE S(Strip(StrOf(full_name)))

SetComputed(mapped_data, target, computed_value) ==
    IF computed_value # None THEN DictSet(mapped_data, target, computed_value) ELSE mapped_data

\* FieldMapper._map_computed_fields
_map_computed_fields(form_data, current_year) ==
    SetComputed(
        SetComputed(
            SetComputed(EmptyDict, "date_of_birth",
                        _age_to_birth_date(Get(form_data, "age"), current_year)),
            "family_name", _copy_full_name(Get(form_data, "ownerFullName"))),
        "first_name", _extract_first_name(Get(form_data, "firstName")))

\* map_form_data with the direct mappings applied after the computed fields
map_form_data_direct_last(form_data, current_year) ==
    DictUpdate(_map_computed_fields(form_data, current_year), _map_main_fields(form_data))

\* FieldMapper.map_form_data, the main data
map_form_data(form_data, current_year) ==
    DictUpdate(_map_main_fields(form_data), _map_computed_fields(form_data, current_year))

\* the child_tables of FieldMappingConfig.MAPPINGS["small-project-register"]:
\* the submission key, the table_field and the fields (each mapped to itself)
mapper_child_tables ==
    << [source |-> "educations", table_field |-> "education",
        fields |-> {"qualification", "school_univ", "level", "year_of_passing",
                    "class_per", "maj_opt_subj"}],
       [source |-> "projects", table_field |-> "project",
        fields |-> {"project_name", "project_detials", "sector_name", "sector_type_name",
                    "sector_type_nam_info", "sector_type_details_name",
                    "sector_type_details_name_info", "number_of_workers", "amount_capital"}],
       [source |-> "productions", table_field |-> "productivity",
        fields |-> {"quantity", "unit"}],
       [source |-> "addresses", table_field |-> "address_details",
        fields |-> {"city_name", "directorate_name", "district_name", "district_name_info",
                    "village_name", "village_name_info", "accommodation_type"}] >>

\* mapped_row of FieldMapper._map_child_tables for one element that is a dict
MappedRow(fields, row_data) ==
    [f \in {g \in fields : Has(row_data, g) /\ _clean_field_value(Get(row_data, g)) # None} |->
        _clean_field_value(Get(row_data, f))]

\* FieldMapper._map_child_tables: no table of the configuration is named
\* project_data or address_data, so every table is read from a list
_map_child_tables(form_data) ==
    LET rows(t) == SelectSeq([i \in 1..Len(Get(form_data, t.source).l) |->
                                 IF Get(form_data, t.source).l[i].t = "dict"
                                 THEN MappedRow(t.fields, Get(form_data, t.source).l[i].d)
                                 ELSE EmptyDict],
                             LAMBDA r : DOMAIN r # {})
        listed == {t \in SeqRange(mapper_child_tables) :
                      Has(form_data, t.source) /\ isinstance_list(Get(form_data, t.source))}
        kept == {t \in listed : rows(t) # <<>>}
    IN  [n \in {t.table_field : t \in kept} |->
            L(rows(CHOOSE t \in kept : t.table_field = n))]

\* form_data.get(k, "")
GetOrEmpty(form_data, k) == IF Has(form_data, k) THEN Get(form_data, k) ELSE S(<<>>)

\* {k: v for k, v in mapped_data.items() if v is not None and v != ""}
CleanEmpty(mapped_data) ==
    [k \in {x \in DOMAIN mapped_data : mapped_data[x] # None /\ mapped_data[x] # S(<<>>)}
        |-> mapped_data[k]]

\* TrainingProgramProcessor.map_form_fields
TrainingProgram_map_form_fields(form_data) ==
    [mapped_data |-> CleanEmpty([full_name |-> GetOrEmpty(form_data, "fullName"),
                                 phone |-> GetOrEmpty(form_data, "phone"),
                                 city |-> GetOrEmpty(form_data, "city"),
                                 age |-> Get(form_data, "age"),
                                 reason |-> GetOrEmpty(form_data, "reason"),
                                 status |-> S(<<"Open">>)]),
     child_tables |-> EmptyDict]

\* SmallProjectProcessor.map_form_fields
SmallProject_map_form_fields(form_data, current_year) ==
    [mapped_data |-> map_form_data(form_data, current_year),
     child_tables |-> process_child_tables("Micro Enterprise Request", form_data, current_year)]

-----------------------------------------------------------------------------
(* Runs of one pure function: the arguments are drawn in the initial state and
   the only step applies the function to them. *)

\* the pipeline variables of a specification that runs no request
NoPipeline ==
    /\ doctypes = {}
    /\ store = <<>>
    /\ files = {}
    /\ errlog = {}
    /\ pc = <<>>
    /\ req = <<>>
    /\ loc = <<>>
    /\ result = <<>>
    /\ response = <<>>
    /\ obs = <<>>

\* the rate-limit variables of a specification that runs no wrapper
NoRateLimit ==
    /\ rl_limit = None
    /\ cache = None
    /\ rl = <<>>
    /\ invoked = 0
    /\ rl_hist = <<>>

Pending == [done |-> FALSE]

Returned(value) == [done |-> TRUE, value |-> value]

\* education rows and production rows a submission can carry
EducationRows ==
    {D([qualification |-> S(<<"B", "A">>), year_of_passing |-> S(<<"1", "9", "9", "0">>)]),
     D([qualification |-> S(<<"M", "S">>), year_of_passing |-> S(<<"1", "8", "0", "0">>)]),
     D([qualification |-> S(<<" ">>), year_of_passing |-> None]),
     D(EmptyDict), I(3)}

ProductionRows ==
    {D([quantity |-> S(<<"5">>), unit |-> S(<<"k", "g">>)]),
     D([quantity |-> S(<<"-", "5">>), unit |-> S(<<"l">>)]),
     D([quantity |-> None, unit |-> S(<<" ">>)])}

MaxRows == 2

RowLists(rows) == {L(l) : l \in UNION {[1..n -> rows] : n \in 0..MaxRows}}

\* submissions drawn for process_child_tables
ChildTableSubmissions ==
    [projectName : {Absent, S(<<" ">>), S(<<"P">>)},
     products : {Absent, S(<<"x">>)},
     governorate : {Absent, None, S(<<"G">>)},
     street : {Absent, S(<<"s">>)},
     qualification : {Absent, S(<<"H", "S">>)},
     educations : {Absent, None, S(<<"x">>)} \cup RowLists(EducationRows),
     productions : {Absent} \cup RowLists(ProductionRows)]

InitChild ==
    /\ NoPipeline
    /\ NoRateLimit
    /\ fn_name = "process_child_tables"
    /\ fn_in \in [form_data : ChildTableSubmissions, current_year : CurrentYears]
    /\ fn_out = Pending

\* child_processor.process_child_tables(form_data)
CallProcessChildTables ==
    /\ fn_name = "process_child_tables"
    /\ ~fn_out.done
    /\ fn_out' = Returned(process_child_tables("Micro Enterprise Request",
                                                fn_in.form_data, fn_in.current_year))
    /\ UNCHANGED <<fn_name, fn_in>>
    /\ UNCHANGED <<pipeVars, rateVars>>

NextChild == CallProcessChildTables

SpecChild == InitChild /\ [][NextChild]_vars

\* a row has some non-null field
RowHasData(row) == \E f \in DOMAIN row : row[f] # None

\* C10: every table id in the output of process_child_tables maps to a
\* non-empty list of rows, one of which has a non-null field; a table
\* without a surviving row is no key of the output (so it is mapped neither
\* to an empty list nor to None).
ChildTablePresence ==
    (fn_name = "process_child_tables" /\ fn_out.done) =>
        \A n \in DOMAIN fn_out.value :
            /\ fn_out.value[n].t = "list"
            /\ fn_out.value[n].l # <<>>
            /\ \E i \in 1..Len(fn_out.value[n].l) : RowHasData(fn_out.value[n].l[i])

\* C10 witness: a submission whose educations array has only blank rows and
\* whose governorate is missing gets a project table but neither an education
\* nor an address table
ChildTablePresenceSeen ==
    /\ fn_name = "process_child_tables"
    /\ fn_out.done
    /\ fn_in.form_data.educations.t = "list"
    /\ fn_in.form_data.educations.l # <<>>
    /\ "education" \notin DOMAIN fn_out.value
    /\ "address_details" \notin DOMAIN fn_out.value
    /\ "project" \in DOMAIN fn_out.value
    /\ "productivity" \in DOMAIN fn_out.value

\* a value a row can carry: not None and, for a str, not blank
Usable(v) == v # None /\ (isinstance_str(v) => Strip(v.s) # <<>>)

\* a list element that is a mapping with a usable value for a mapped field
WellFormedElement(table_config, e) ==
    /\ e.t = "dict"
    /\ \E i \in 1..Len(table_config.field_mappings) :
          /\ table_config.field_mappings[i][2] # NoTarget
          /\ Has(e.d, table_config.field_mappings[i][1])
          /\ Usable(Get(e.d, table_config.field_mappings[i][1]))

\* the row carries the trimmed text of every usable str that the element holds
\* for a field mapped without a processor
RowFromElement(table_config, row, e) ==
    \A i \in 1..Len(table_config.field_mappings) :
        LET form_field == table_config.field_mappings[i][1]
            doctype_field == table_config.field_mappings[i][2]
        IN  (/\ doctype_field # NoTarget
             /\ \A j \in 1..Len(table_config.field_processors) :
                    table_config.field_processors[j][1] # doctype_field
             /\ Has(e.d, form_field)
             /\ isinstance_str(Get(e.d, form_field))
             /\ Usable(Get(e.d, form_field)))
            => /\ doctype_field \in DOMAIN row
               /\ row[doctype_field] = S(Strip(Get(e.d, form_field).s))

\* the tables of the Micro Enterprise Request that declare an array_source
ArraySourceTables ==
    {n \in SeqRange(MicroEnterpriseTables) : "array_source" \in DOMAIN MicroEnterpriseConfigs[n]}

\* the elements of a list that are mappings, in order
MappingElements(array_data) == SelectSeq(array_data.l, LAMBDA e : e.t = "dict")

\* C11: for every table with an array_source whose array is a list in which
\* every mapping is well formed, process_child_tables returns as many rows as
\* the list has mappings, the k-th row built from the k-th mapping; elements
\* that are no mappings add no row, and a list without a mapping gives no table.
ArrayRowsInOrder ==
    (fn_name = "process_child_tables" /\ fn_out.done) =>
        \A n \in ArraySourceTables :
            LET table_config == MicroEnterpriseConfigs[n]
                array_data == fn_in.form_data[table_config.array_source]
            IN  (/\ array_data.t = "list"
                 /\ \A i \in 1..Len(array_data.l) :
                        array_data.l[i].t = "dict" => WellFormedElement(table_config, array_data.l[i]))
                => IF MappingElements(array_data) = <<>>
                   THEN n \notin DOMAIN fn_out.value
                   ELSE /\ n \in DOMAIN fn_out.value
                        /\ Len(fn_out.value[n].l) = Len(MappingElements(array_data))
                        /\ \A k \in 1..Len(MappingElements(array_data)) :
                               RowFromElement(table_config, fn_out.value[n].l[k],
                                              MappingElements(array_data)[k])

\* C11 witness: an educations list of an element that is no mapping followed by
\* a well-formed one gives one education row, and a productions list of two
\* different well-formed mappings gives two rows in the order of the list
ArrayRowsInOrderSeen ==
    /\ fn_name = "process_child_tables"
    /\ fn_out.done
    /\ fn_in.form_data.educations.t = "list"
    /\ Len(fn_in.form_data.educations.l) = 2
    /\ fn_in.form_data.educations.l[1].t = "int"
    /\ WellFormedElement(MicroEnterpriseConfigs.education, fn_in.form_data.educations.l[2])
    /\ Len(fn_out.value.education.l) = 1
    /\ fn_in.form_data.productions.t = "list"
    /\ Len(fn_in.form_data.productions.l) = 2
    /\ \A i \in 1..2 : WellFormedElement(MicroEnterpriseConfigs.productivity,
                                         fn_in.form_data.productions.l[i])
    /\ fn_in.form_data.productions.l[1] # fn_in.form_data.productions.l[2]
    /\ Len(fn_out.value.productivity.l) = 2
    /\ fn_out.value.productivity.l[1].unit # fn_out.value.productivity.l[2].unit

\* C19: in a table built from an array, a target field whose processor
\* returns None for the value the element holds is no field of the row built
\* from that element, so the rejected raw value is not stored.
RejectedValueOmitted ==
    (fn_name = "process_child_tables" /\ fn_out.done) =>
        \A n \in ArraySourceTables \cap DOMAIN fn_out.value :
            LET table_config == MicroEnterpriseConfigs[n]
                elements == MappingElements(fn_in.form_data[table_config.array_source])
            IN  Len(fn_out.value[n].l) = Len(elements) =>
                  \A k \in 1..Len(elements) :
                      \A j \in 1..Len(table_config.field_processors) :
                          LET doctype_field == table_config.field_processors[j][1]
                              source_field == target_field_sources(table_config.field_mappings,
                                                                   doctype_field)[1]
                          IN  (/\ Has(elements[k].d, source_field)
                               /\ Get(elements[k].d, source_field) # None
                               /\ _apply_field_processor(table_config.field_processors[j][2],
                                                         Get(elements[k].d, source_field),
                                                         elements[k].d, fn_in.current_year) = None)
                              => doctype_field \notin DOMAIN fn_out.value[n].l[k]

\* a value its processor accepts is stored as the processor returned it
AcceptedValueProcessedSeen ==
    /\ fn_name = "process_child_tables"
    /\ fn_out.done
    /\ "education" \in DOMAIN fn_out.value
    /\ fn_out.value.education.l[1].year_of_passing = I(1990)

\* the table n of the output is the one candidate row built from the flat
\* fields of the submission, or absent when they give the row no value
BuiltFromFlatFields(n) ==
    IF WellFormedElement(MicroEnterpriseConfigs[n], D(fn_in.form_data))
    THEN /\ n \in DOMAIN fn_out.value
         /\ Len(fn_out.value[n].l) = 1
         /\ RowFromElement(MicroEnterpriseConfigs[n], fn_out.value[n].l[1], D(fn_in.form_data))
    ELSE n \notin DOMAIN fn_out.value

\* the table n of the output has one row for each well-formed mapping of the list
BuiltFromArray(n, array_data) ==
    LET well_formed == SelectSeq(array_data.l,
                                 LAMBDA e : WellFormedElement(MicroEnterpriseConfigs[n], e))
    IN  IF well_formed = <<>> THEN n \notin DOMAIN fn_out.value
        ELSE /\ n \in DOMAIN fn_out.value
             /\ Len(fn_out.value[n].l) = Len(well_formed)
             /\ \A k \in 1..Len(well_formed) :
                    RowFromElement(MicroEnterpriseConfigs[n], fn_out.value[n].l[k], well_formed[k])

\* C20: a table with an array_source is built from the array when the key is
\* in the submission with a list as its value; when the key is missing, or its
\* value is no list, the table is built as one candidate row from the flat
\* fields of the submission.
ArrayOrSingleRowChoice ==
    (fn_name = "process_child_tables" /\ fn_out.done) =>
        \A n \in ArraySourceTables :
            IF isinstance_list(fn_in.form_data[MicroEnterpriseConfigs[n].array_source])
            THEN BuiltFromArray(n, fn_in.form_data[MicroEnterpriseConfigs[n].array_source])
            ELSE BuiltFromFlatFields(n)

\* the choice is as C20 says when the key is missing or holds a list
ArrayOrSingleRowChoiceListOrMissing ==
    (fn_name = "process_child_tables" /\ fn_out.done) =>
        \A n \in ArraySourceTables :
            IF isinstance_list(fn_in.form_data[MicroEnterpriseConfigs[n].array_source])
            THEN BuiltFromArray(n, fn_in.form_data[MicroEnterpriseConfigs[n].array_source])
            ELSE ~Has(fn_in.form_data, MicroEnterpriseConfigs[n].array_source)
                     => BuiltFromFlatFields(n)

\* a submission without the educations key got its education row from the
\* flat qualification field
SingleRowFromFlatFieldsSeen ==
    /\ fn_name = "process_child_tables"
    /\ fn_out.done
    /\ ~Has(fn_in.form_data, "educations")
    /\ "education" \in DOMAIN fn_out.value
    /\ fn_out.value.education.l = << [qualification |-> S(<<"H", "S">>)] >>

-----------------------------------------------------------------------------
(* Runs of _process_single_table and validate_child_table_data on one table *)

\* a single-row table that declares two required fields
TwoRequiredConfig ==
    [child_doctype |-> "Contact Details",
     required_fields |-> <<"first_contact", "second_contact">>,
     field_mappings |-> << <<"firstContact", "first_contact">>,
                           <<"secondContact", "second_contact">> >>]

\* the project table without field processors: project_detials is a fan-in
\* target of the direct mappings
DirectFanInConfig ==
    [child_doctype |-> "Project Details",
     required_fields |-> <<>>,
     field_mappings |-> << <<"projectDescription", "project_detials">>,
                           <<"products", "project_detials">> >>]

\* a single-row table and an array table whose default is the target of a mapping
MappedDefaultConfig ==
    [child_doctype |-> "Address Details",
     required_fields |-> <<>>,
     field_mappings |-> << <<"housing", "accommodation_type">> >>,
     defaults |-> [accommodation_type |-> S(<<"O", "w", "n", "e", "d">>)]]

MappedDefaultArrayConfig ==
    [child_doctype |-> "Address Details",
     required_fields |-> <<>>,
     field_mappings |-> << <<"housing", "accommodation_type">> >>,
     defaults |-> [accommodation_type |-> S(<<"O", "w", "n", "e", "d">>)],
     array_source |-> "homes"]

\* the tables a processor is configured with, one at a time
TableCases ==
    {[table_name |-> "project", table_config |-> MicroEnterpriseConfigs.project],
     [table_name |-> "address_details", table_config |-> MicroEnterpriseConfigs.address_details],
     [table_name |-> "contact", table_config |-> TwoRequiredConfig],
     [table_name |-> "narrative", table_config |-> DirectFanInConfig],
     [table_name |-> "housing", table_config |-> MappedDefaultConfig],
     [table_name |-> "homes", table_config |-> MappedDefaultArrayConfig]}

ARented == S(<<"R", "e", "n", "t", "e", "d">>)

\* submissions drawn for one table
TableSubmissions ==
    [projectName : {Absent, S(<<"P">>)},
     projectDescription : {Absent, S(<<>>), S(<<"A">>), S(<<" ">>)},
     products : {Absent, S(<<"B">>), S(<<"A">>)},
     governorate : {Absent, S(<<"G">>)},
     firstContact : {Absent, I(0), S(<<"x">>)},
     secondContact : {Absent, S(<<"y">>)},
     housing : {Absent, ARented},
     homes : {Absent, L(<< D([housing |-> ARented]), D(EmptyDict) >>)}]

InitTable ==
    /\ NoPipeline
    /\ NoRateLimit
    /\ fn_name = "_process_single_table"
    /\ \E c \in TableCases :
          fn_in \in [table_name : {c.table_name}, table_config : {c.table_config},
                     form_data : TableSubmissions, current_year : CurrentYears]
    /\ fn_out = Pending

\* table_data = self._process_single_table(table_name, table_config, form_data)
CallProcessSingleTable ==
    /\ fn_name = "_process_single_table"
    /\ ~fn_out.done
    /\ fn_out' = Returned(_process_single_table(fn_in.table_config, fn_in.form_data,
                                                fn_in.current_year))
    /\ UNCHANGED <<fn_name, fn_in>>
    /\ UNCHANGED <<pipeVars, rateVars>>

\* validate_child_table_data(table_name, table_data) for a table that was
\* produced, by the processor configured with that table
CallValidateChildTableData ==
    /\ fn_name = "_process_single_table"
    /\ fn_out.done
    /\ Truthy(fn_out.value)
    /\ fn_name' = "validate_child_table_data"
    /\ fn_in' = [table_name |-> fn_in.table_name, table_config |-> fn_in.table_config,
                 form_data |-> fn_in.form_data, current_year |-> fn_in.current_year,
                 table_data |-> fn_out.value]
    /\ fn_out' = Returned(validate_table_rows(fn_in.table_name :> fn_in.table_config,
                                              fn_in.table_name, fn_out.value,
                                              fn_in.current_year))
    /\ UNCHANGED <<pipeVars, rateVars>>

NextTable == CallProcessSingleTable \/ CallValidateChildTableData

SpecTable == InitTable /\ [][NextTable]_vars

\* the required fields of the table for which the submission holds a truthy,
\* usable value in a field mapped to them
TruthyRequired(table_config, form_data) ==
    {f \in SeqRange(table_config.required_fields) :
        \E i \in 1..Len(table_config.field_mappings) :
            /\ table_config.field_mappings[i][2] = f
            /\ Truthy(Get(form_data, table_config.field_mappings[i][1]))
            /\ Usable(Get(form_data, table_config.field_mappings[i][1]))}

\* a single-row table with two required fields, as the run was given it
TwoRequiredRun ==
    /\ "array_source" \notin DOMAIN fn_in.table_config
    /\ Cardinality(SeqRange(fn_in.table_config.required_fields)) = 2

\* C12: for a single-row table with two required fields, _process_single_table
\* returns the row when exactly one of them is truthy and returns no table when
\* none is; validate_child_table_data on the returned row reports, under the
\* key "<table>_row_0", that the other required field is required.
AnyGateAllValidation ==
    TwoRequiredRun =>
        /\ (fn_name = "_process_single_table" /\ fn_out.done) =>
              /\ TruthyRequired(fn_in.table_config, fn_in.form_data) = {} => fn_out.value = None
              /\ Cardinality(TruthyRequired(fn_in.table_config, fn_in.form_data)) = 1 =>
                    /\ fn_out.value.t = "list"
                    /\ Len(fn_out.value.l) = 1
                    /\ \A f \in TruthyRequired(fn_in.table_config, fn_in.form_data) :
                           f \in DOMAIN fn_out.value.l[1] /\ Truthy(fn_out.value.l[1][f])
        /\ (/\ fn_name = "validate_child_table_data"
            /\ Cardinality(TruthyRequired(fn_in.table_config, fn_in.form_data)) = 1) =>
              /\ <<fn_in.table_name, "_row_", 0>> \in DOMAIN fn_out.value
              /\ \A f \in SeqRange(fn_in.table_config.required_fields)
                          \ TruthyRequired(fn_in.table_config, fn_in.form_data) :
                     <<"Field '{0}' is required", f>>
                         \in SeqRange(fn_out.value[<<fn_in.table_name, "_row_", 0>>])

\* C12 witness: the row with only second_contact set was returned and its
\* validation reports first_contact
AnyGateAllValidationSeen ==
    /\ TwoRequiredRun
    /\ fn_name = "validate_child_table_data"
    /\ TruthyRequired(fn_in.table_config, fn_in.form_data) = {"second_contact"}
    /\ Len(fn_in.table_data.l) = 1
    /\ fn_out.value[<<fn_in.table_name, "_row_", 0>>] = << <<"Field '{0}' is required", "first_contact">> >>

\* the run's table maps projectDescription and products to project_detials, the
\* submission gives a description A and products B that A does not contain,
\* and the table's required fields let the row through
FanInRun ==
    /\ fn_name = "_process_single_table"
    /\ fn_out.done
    /\ <<"projectDescription", "project_detials">> \in SeqRange(fn_in.table_config.field_mappings)
    /\ <<"products", "project_detials">> \in SeqRange(fn_in.table_config.field_mappings)
    /\ isinstance_str(fn_in.form_data.projectDescription)
    /\ isinstance_str(fn_in.form_data.products)
    /\ Strip(fn_in.form_data.projectDescription.s) # <<>>
    /\ Strip(fn_in.form_data.products.s) # <<>>
    /\ ~IsSubstr(Strip(fn_in.form_data.products.s), Strip(fn_in.form_data.projectDescription.s))
    /\ fn_in.table_config.required_fields # <<>> =>
           TruthyRequired(fn_in.table_config, fn_in.form_data) # {}

\* project_detials has a field processor in the run's table
NarrativeProcessed ==
    /\ "field_processors" \in DOMAIN fn_in.table_config
    /\ <<"project_detials", "process_project_description">>
           \in SeqRange(fn_in.table_config.field_processors)

\* C13: with projectDescription = A and products = B, B no part of A, the one
\* row of the table has project_detials = A, a blank line, "Products: " and B
\* when project_detials has the description processor, and A, a blank line and
\* B when it is a fan-in target of the direct mappings only.
FanInNarrative ==
    FanInRun =>
        /\ fn_out.value.t = "list"
        /\ Len(fn_out.value.l) = 1
        /\ "project_detials" \in DOMAIN fn_out.value.l[1]
        /\ fn_out.value.l[1].project_detials =
              IF NarrativeProcessed
              THEN S(Strip(fn_in.form_data.projectDescription.s)
                     \o <<"\n", "\n", "P", "r", "o", "d", "u", "c", "t", "s", ":", " ">>
                     \o Strip(fn_in.form_data.products.s))
              ELSE S(Strip(fn_in.form_data.projectDescription.s) \o <<"\n", "\n">>
                     \o Strip(fn_in.form_data.products.s))

\* C13 witness: the shipped project table, with a project name, merged "A" and
\* "B" through the description processor
FanInNarrativeSeen ==
    /\ FanInRun
    /\ NarrativeProcessed
    /\ fn_in.table_name = "project"
    /\ fn_in.form_data.projectDescription = S(<<"A">>)
    /\ fn_in.form_data.products = S(<<"B">>)
    /\ fn_out.value.l[1].project_detials.s[4] = "P"

\* the direct path merged "A" and "B" with a blank line between them
FanInDirectSeen ==
    /\ FanInRun
    /\ ~NarrativeProcessed
    /\ fn_out.value.l[1].project_detials = S(<<"A", "\n", "\n", "B">>)

\* the cleaned values that the mappings of the table give target field f from
\* the fields of e
MappedValues(table_config, e, f) ==
    {_clean_field_value(Get(e, table_config.field_mappings[i][1])) :
        i \in {j \in 1..Len(table_config.field_mappings) :
                  /\ table_config.field_mappings[j][2] = f
                  /\ Has(e, table_config.field_mappings[j][1])
                  /\ Usable(Get(e, table_config.field_mappings[j][1]))}}

\* what each row of the run's table is built from: the mappings of the array,
\* or the submission itself for a single row
RowSources ==
    IF "array_source" \in DOMAIN fn_in.table_config
       /\ Has(fn_in.form_data, fn_in.table_config.array_source)
    THEN [i \in 1..Len(MappingElements(Get(fn_in.form_data, fn_in.table_config.array_source))) |->
             MappingElements(Get(fn_in.form_data, fn_in.table_config.array_source))[i].d]
    ELSE <<fn_in.form_data>>

\* every row keeps, for the fields that have a default, the value a mapping set
DefaultsKeepMapped ==
    \A k \in 1..Len(fn_out.value.l) :
        \A f \in DOMAIN CfgGet(fn_in.table_config, "defaults", EmptyDict) :
            /\ f \in DOMAIN fn_out.value.l[k]
            /\ MappedValues(fn_in.table_config, RowSources[k], f) # {} =>
                  fn_out.value.l[k][f] \in MappedValues(fn_in.table_config, RowSources[k], f)

\* C18: in the single-row and in the array path, a field of a row that a
\* mapping set keeps that value when the defaults are merged; the default
\* fills the field only in a row that has no value for it.
DefaultsNeverOverwrite ==
    (/\ fn_name = "_process_single_table"
     /\ fn_out.done
     /\ fn_out.value # None
     /\ Len(fn_out.value.l) = Len(RowSources)) => DefaultsKeepMapped

\* for the tables the Micro Enterprise Request ships with, no default is the
\* target of a mapping and every row has its defaults
DefaultsNeverOverwriteShipped ==
    (/\ fn_name = "_process_single_table"
     /\ fn_out.done
     /\ fn_out.value # None
     /\ fn_in.table_config \in {MicroEnterpriseConfigs[n] : n \in SeqRange(MicroEnterpriseTables)})
        => DefaultsKeepMapped


-----------------------------------------------------------------------------
(* Two calls of the mappers on one submission, the clock running between them *)

\* the times of the year the clock is read at
Months == {"Jan", "Dec"}

\* the year of a clock that counts December to the next year
now_year_rounded(now) == IF now.month = "Dec" THEN now.year + 1 ELSE now.year

\* datetime.now().year and frappe.utils.now_datetime().year
now_year(now) == now.year

\* submissions drawn for the two calls
MapperSubmissions ==
    [age : {Absent, I(30), S(<<"a">>)},
     birthDate : {Absent, S(<<"1", "9", "9", "0", "-", "0", "5", "-", "0", "5">>)},
     firstName : {Absent, S(<<"A", " ", "B">>), S(<<" ", "A", "l", " ", " ", "B">>)},
     projectName : {Absent, S(<<"P">>)},
     workersCount : {Absent, S(<<"-", "2">>)},
     educations : {Absent,
                   L(<< D([qualification |-> S(<<"B", "A">>),
                           year_of_passing |-> S(<<"2", "0", "3", "6">>)]) >>),
                   L(<< I(3), D([level |-> S(<<" ", "H">>)]) >>)}]

InitTwice ==
    /\ NoPipeline
    /\ NoRateLimit
    /\ fn_name = "map_form_data"
    /\ fn_in \in [form_data : MapperSubmissions,
                  now : [year : CurrentYears, month : Months]]
    /\ fn_out = [done |-> FALSE, calls |-> <<>>]

\* field_mapper.map_form_data(form_data) and
\* child_processor.process_child_tables(form_data), with the year each read
CallMappers ==
    /\ fn_name = "map_form_data"
    /\ ~fn_out.done
    /\ fn_out' = [done |-> Len(fn_out.calls) = 1,
                  calls |-> Append(fn_out.calls,
                      [year |-> fn_in.now.year,
                       main_data |-> map_form_data(fn_in.form_data, now_year(fn_in.now)),
                       child_tables_data |-> _map_child_tables(fn_in.form_data),
                       processed_tables |->
                           process_child_tables("Micro Enterprise Request", fn_in.form_data,
                                                now_year(fn_in.now))])]
    /\ UNCHANGED <<fn_name, fn_in>>
    /\ UNCHANGED <<pipeVars, rateVars>>

\* time passes between the two calls: to the end of the year, or into the next
Tick ==
    /\ fn_name = "map_form_data"
    /\ Len(fn_out.calls) = 1
    /\ \/ /\ fn_in.now.month = "Jan"
          /\ fn_in' = [fn_in EXCEPT !.now.month = "Dec"]
       \/ /\ fn_in.now.month = "Dec"
          /\ fn_in.now.year + 1 \in CurrentYears
          /\ fn_in' = [fn_in EXCEPT !.now = [year |-> fn_in.now.year + 1, month |-> "Jan"]]
    /\ UNCHANGED <<fn_name, fn_out>>
    /\ UNCHANGED <<pipeVars, rateVars>>

NextTwice == CallMappers \/ Tick

SpecTwice == InitTwice /\ [][NextTwice]_vars

MappingFollowsYearSeen ==
    /\ fn_name = "map_form_data"
    /\ fn_out.done
    /\ fn_out.calls[1].year # fn_out.calls[2].year
    /\ fn_out.calls[1].main_data # fn_out.calls[2].main_data
    /\ fn_out.calls[1].processed_tables # fn_out.calls[2].processed_tables


-----------------------------------------------------------------------------
(* Runs of _process_currency_amount *)

AmountChars == {"0", "1", ",", "-", " ", ".", "a"}

MaxAmountLen == 3

\* raw amounts: the texts over AmountChars, three longer texts, None and ints
Amounts ==
    {S(s) : s \in UNION {[1..n -> AmountChars] : n \in 0..MaxAmountLen}}
        \cup {S(<<"1", ",", "2", "3", "4">>), S(<<"1", ",", "2", "3", "4", ".", "5", "0">>),
              S(<<"a", "b", "c">>), None, I(0), I(5), I(-5)}

InitCurrency ==
    /\ NoPipeline
    /\ NoRateLimit
    /\ fn_name = "_process_currency_amount"
    /\ fn_in \in [value : Amounts]
    /\ fn_out = Pending

\* self._process_currency_amount(value)
CallProcessCurrencyAmount ==
    /\ fn_name = "_process_currency_amount"
    /\ ~fn_out.done
    /\ fn_out' = Returned(_process_currency_amount(fn_in.value))
    /\ UNCHANGED <<fn_name, fn_in>>
    /\ UNCHANGED <<pipeVars, rateVars>>

NextCurrency == CallProcessCurrencyAmount

SpecCurrency == InitCurrency /\ [][NextCurrency]_vars

\* float() of the text of the value without its commas and spaces
ParsedAmount(value) == FloatOfStr(Strip(Remove(Remove(StrOf(value), ","), " ")))

\* the result is the parsed amount where it is not negative, and None otherwise
ParsedOrNone(value, out) ==
    IF ParsedAmount(value).ok /\ ParsedAmount(value).num >= 0
    THEN out = Fl(ParsedAmount(value).num, ParsedAmount(value).scale)
    ELSE out = None

\* C15: for every input _process_currency_amount returns the amount parsed
\* from its text without commas and spaces when that amount is not negative,
\* and None when the amount is negative or the text does not parse.
CurrencyParsedOrNone ==
    (fn_name = "_process_currency_amount" /\ fn_out.done) =>
        ParsedOrNone(fn_in.value, fn_out.value)

\* for every text, None and every int other than 0 the result is as C15 says
CurrencyParsedOrNoneButZero ==
    (fn_name = "_process_currency_amount" /\ fn_out.done /\ fn_in.value # I(0)) =>
        ParsedOrNone(fn_in.value, fn_out.value)

\* "1,234" gives 1234, "-5" is among the inputs that give None
CurrencyExamplesSeen ==
    /\ fn_name = "_process_currency_amount"
    /\ fn_out.done
    /\ fn_in.value = S(<<"1", ",", "2", "3", "4">>)
    /\ fn_out.value = Fl(1234, 0)


-----------------------------------------------------------------------------
(* api/middleware.py: the rate_limit wrapper around an endpoint, for the
   requests of one client IP *)

\* DEFAULT_API_CONFIG["rate_limits"], the entries the wrapper of submit_form reads
rate_limits ==
    [submit_form |-> [limit |-> 10, window |-> 60],
     default |-> [limit |-> 60, window |-> 60]]

\* get_rate_limit_config(endpoint_name)
get_rate_limit_config(endpoint_name) ==
    IF endpoint_name \in DOMAIN rate_limits THEN rate_limits[endpoint_name]
    ELSE rate_limits.default

\* actual_limit = limit or config["limit"]
actual_limit(limit, endpoint_name) ==
    IF Truthy(limit) THEN limit.n ELSE get_rate_limit_config(endpoint_name).limit

NumRateRequests == 3

RateRequests == 1..NumRateRequests

\* the limit arguments a decorator is given; None takes the configured limit
LimitArguments == {None, I(1), I(2)}

InitRate ==
    /\ NoPipeline
    /\ fn_name = "rate_limit"
    /\ fn_in = EmptyDict
    /\ fn_out = Pending
    /\ rl_limit \in LimitArguments
    /\ cache = None
    /\ rl = [r \in RateRequests |->
                [pc |-> "arrived", current_requests |-> 0, status |-> "none", calls |-> 0,
                 cache_failed |-> FALSE, func_raised |-> FALSE]]
    /\ invoked = 0
    /\ rl_hist = [overlap |-> FALSE, fault |-> FALSE]

\* frappe.cache().get(cache_key) or 0
cached_count(c) == IF Truthy(c) THEN c.n ELSE 0

\* a request is between its read of the counter and its write
Counting(r) == rl[r].pc = "counted"

\* the calls of func a request makes once it is past the limit check: one in
\* the try block (line 250) unless the cache raised before it, and one in the
\* except clause (line 257) when the cache or the first call raised
calls_made_once(cache_failed, func_raises) == 1

calls_made(cache_failed, func_raises) ==
    IF cache_failed THEN 1 ELSE IF func_raises THEN 2 ELSE 1

\* the request after the wrapper returned or raised: func_raises is the call in
\* the try block raising, again_raises the call in the except clause
Invoked(q, cache_failed, func_raises, again_raises) ==
    [q EXCEPT !.pc = "done",
              !.calls = calls_made(cache_failed, func_raises),
              !.cache_failed = cache_failed,
              !.func_raised = ~cache_failed /\ func_raises,
              !.status = IF (cache_failed \/ func_raises) /\ again_raises THEN "raised"
                         ELSE "invoked"]

\* the wrapper up to its read of the counter: a request at or over the limit is
\* answered 429; when the cache raises, the except clause calls the endpoint
ReadCount(r) ==
    /\ rl[r].pc = "arrived"
    /\ \E cache_raises \in BOOLEAN, again_raises \in BOOLEAN :
          IF cache_raises
          THEN /\ rl' = [rl EXCEPT ![r] = Invoked(rl[r], TRUE, FALSE, again_raises)]
               /\ invoked' = invoked + 1
               /\ rl_hist' = [rl_hist EXCEPT !.fault = TRUE]
          ELSE /\ ~again_raises
               /\ rl' = [rl EXCEPT ![r] =
                            IF cached_count(cache) >= actual_limit(rl_limit, "submit_form")
                            THEN [rl[r] EXCEPT !.pc = "done",
                                               !.current_requests = cached_count(cache),
                                               !.status = "429"]
                            ELSE [rl[r] EXCEPT !.pc = "counted",
                                               !.current_requests = cached_count(cache)]]
               /\ invoked' = invoked
               /\ rl_hist' = [rl_hist EXCEPT !.overlap = @ \/ \E q \in RateRequests : Counting(q)]
    /\ UNCHANGED <<rl_limit, cache>>
    /\ UNCHANGED <<pipeVars, fnVars>>

\* frappe.cache().set(cache_key, current_requests + 1, expires_in_sec=window),
\* then the call of the wrapped endpoint; when the set or the endpoint raises,
\* the except clause calls the endpoint
SetCount(r) ==
    /\ rl[r].pc = "counted"
    /\ \E set_raises \in BOOLEAN, func_raises \in BOOLEAN, again_raises \in BOOLEAN :
          /\ set_raises => ~func_raises
          /\ again_raises => (set_raises \/ func_raises)
          /\ cache' = IF set_raises THEN cache ELSE I(rl[r].current_requests + 1)
          /\ rl' = [rl EXCEPT ![r] = Invoked(rl[r], set_raises, func_raises, again_raises)]
          /\ invoked' = invoked + calls_made(set_raises, func_raises)
          /\ rl_hist' = [rl_hist EXCEPT !.fault = @ \/ set_raises \/ func_raises]
    /\ UNCHANGED rl_limit
    /\ UNCHANGED <<pipeVars, fnVars>>

\* the window has passed since the counter was last set: the key expires
Expire ==
    /\ cache # None
    /\ cache' = None
    /\ invoked' = 0
    /\ UNCHANGED <<rl_limit, rl, rl_hist>>
    /\ UNCHANGED <<pipeVars, fnVars>>

NextRate == \/ \E r \in RateRequests : ReadCount(r)
            \/ \E r \in RateRequests : SetCount(r)
            \/ Expire

SpecRate == InitRate /\ [][NextRate]_vars

\* C16: within one window no more than `limit` requests of the client reach
\* the wrapped endpoint, whatever the interleaving of the requests.
RateLimitHolds ==
    fn_name = "rate_limit" => invoked <= actual_limit(rl_limit, "submit_form")

\* requests that do not overlap, with a cache that answers, stay within the limit
RateLimitSequential ==
    (fn_name = "rate_limit" /\ ~rl_hist.overlap /\ ~rl_hist.fault) =>
        invoked <= actual_limit(rl_limit, "submit_form")

\* two requests read the counter before either wrote it, the cache answering
\* both, and more requests than the limit reached the endpoint
RateRaceSeen ==
    /\ fn_name = "rate_limit"
    /\ rl_hist.overlap
    /\ ~rl_hist.fault
    /\ invoked > actual_limit(rl_limit, "submit_form")

\* without overlap and without a cache failure the request after the limit got 429
RateLimitSequentialSeen ==
    /\ fn_name = "rate_limit"
    /\ ~rl_hist.overlap
    /\ ~rl_hist.fault
    /\ invoked = actual_limit(rl_limit, "submit_form")
    /\ \E r \in RateRequests : rl[r].status = "429"

\* C30: the rate_limit wrapper calls the wrapped endpoint once for an admitted
\* request; when the endpoint raises, the except clause calls it a second
\* time; when the cache raises before the call, the endpoint is called exactly
\* once; a request answered 429 does not reach the endpoint
OneCallUnlessEndpointRaises ==
    fn_name = "rate_limit" =>
        \A r \in RateRequests :
            /\ rl[r].pc # "done" => rl[r].calls = 0
            /\ rl[r].status = "429" => rl[r].calls = 0
            /\ rl[r].status \in {"invoked", "raised"} =>
                  /\ rl[r].calls = IF rl[r].func_raised THEN 2 ELSE 1
                  /\ rl[r].cache_failed => rl[r].calls = 1
                  /\ rl[r].status = "raised" => (rl[r].cache_failed \/ rl[r].func_raised)

\* C30 witness: one request's endpoint raised and was called twice, another
\* request met a failing cache and was called once, and one was answered 429
OneCallUnlessEndpointRaisesSeen ==
    /\ fn_name = "rate_limit"
    /\ \E r, q, w \in RateRequests :
          /\ rl[r].func_raised /\ rl[r].calls = 2
          /\ rl[q].cache_failed /\ rl[q].calls = 1
          /\ rl[w].status = "429" /\ rl[w].calls = 0

-----------------------------------------------------------------------------
(* Runs of validate_form_data *)

FormTypes == {"small-project-register", "training-program", "volunteer-program",
              "training-service", "training-ad", "promote-project",
              "specs-memo-request", "contract-opportunity", "contact-form"}

AName == S(<<"A", "l", "i", " ", "S">>)

APhone == S(<<"7", "7", "1", "2", "3", "4", "5", "6", "7">>)

AnEmail == S(<<"a", "@", "b", ".", "c", "o">>)

AText == S(<<"t", "x", "t">>)

ADate == S(<<"2", "0", "2", "0", "-", "0", "1", "-", "0", "1">>)

AnAmount == S(<<"5", "0", "0", "0">>)

APng == FileData(<<"a", ".", "p", "n", "g">>, 1)

APdf == FileData(<<"c", "v", ".", "p", "d", "f">>, 1)

\* the values of experienceYears that the range check 0..50 accepts, at its ends
ValidExperienceYears == {I(0), I(MaxExperienceYears)}

\* submissions in which every required field of the form type is valid
ValidSubmissions(form_type) ==
    CASE form_type = "small-project-register" ->
            {[ownerFullName |-> AName, governorate |-> AText, district |-> AText,
              neighborhood |-> AText, street |-> AText, age |-> I(30),
              primaryPhone |-> APhone, email |-> AnEmail, projectName |-> AText,
              projectStatus |-> StatusIdea, capital |-> AnAmount, workersCount |-> w,
              startDate |-> ADate, products |-> AText, projectDescription |-> AText]
                : w \in {I(0), I(3)}}
      [] form_type \in {"training-program", "training-ad"} ->
            {[fullName |-> AName, phone |-> APhone, city |-> AText, age |-> I(MinTrainingAge)]}
      [] form_type = "volunteer-program" ->
            {[fullName |-> AName, phone |-> APhone, city |-> AText, age |-> I(MaxAge),
              favField |-> AText]}
      [] form_type = "training-service" ->
            {[fullName |-> AName, phone |-> APhone, city |-> AText, age |-> I(20),
              trainingFields |-> L(<<S(<<"[ar] sewing">>)>>)]}
      [] form_type = "promote-project" ->
            {[projectName |-> AText, projectDescription |-> AText]}
      [] form_type = "specs-memo-request" ->
            {[projectType |-> S(<<"[ar] small">>), projectName |-> AText,
              projectStatus |-> S(<<"[ar] active">>), startDate |-> ADate,
              capital |-> AnAmount, location |-> AText, ownerName |-> AName,
              gender |-> S(<<"[ar] male">>), birthDate |-> ADate,
              educationLevel |-> S(<<"[ar] school">>), currentAddress |-> AText,
              phone |-> APhone]}
      [] form_type = "contract-opportunity" ->
            {[fullName |-> AName, phone |-> APhone, email |-> AnEmail,
              specialization |-> AText, experienceYears |-> y, field |-> AText,
              cvFile |-> APdf] : y \in ValidExperienceYears}
      [] form_type = "contact-form" ->
            {[fullName |-> AName, phone |-> APhone, subject |-> AText, message |-> AText]}

\* the three ways a field is missing: absent, null, blank
MissingValues == {Absent, None, S(<<" ">>)}

MaxMissing == 2

required_names(form_type) == {required_fields(form_type)[i][1] : i \in 1..Len(required_fields(form_type))}

\* the submission with the fields of missing replaced by the missing value m
Without(form_data, missing, m) ==
    [f \in DOMAIN form_data |-> IF f \in missing THEN m ELSE form_data[f]]

\* the form type's phone field
phone_field(form_type) ==
    IF form_type = "small-project-register" THEN "primaryPhone" ELSE "phone"

\* phone values with fewer than nine digits: eight digits, eight digits after
\* a plus sign, eight digits with dashes, five digits, and a number
ShortPhones ==
    {S(<<"7", "7", "1", "2", "3", "4", "5", "6">>),
     S(<<"+", "7", "7", "1", "2", "3", "4", "5", "6">>),
     S(<<"7", "7", "1", "-", "2", "3", "4", "-", "5", "6">>),
     S(<<"7", "7", "1", "2", "3">>),
     I(77123)}

\* values of projectStatus: the labels, the internal codes and others
StatusValues ==
    DOMAIN status_mapping \cup DocStatuses
        \cup {S(<<"P", "e", "n", "d", "i", "n", "g">>), S(<<"o", "p", "e", "n">>)}

\* one field of a valid submission given another value
NoOverride == [field |-> "", value |-> None]

Overrides(form_type, valid) ==
    {NoOverride}
        \cup {[field |-> phone_field(form_type), value |-> v] :
                 v \in {x \in ShortPhones : phone_field(form_type) \in DOMAIN valid}}
        \cup {[field |-> "projectStatus", value |-> v] :
                 v \in {x \in StatusValues : form_type = "small-project-register"}}

Overridden(form_data, override) ==
    IF override = NoOverride THEN form_data
    ELSE DictSet(form_data, override.field, override.value)

InitValidate ==
    /\ NoPipeline
    /\ NoRateLimit
    /\ fn_name = "validate_form_data"
    /\ \E form_type \in FormTypes, current_year \in CurrentYears, m \in MissingValues :
         \E valid \in ValidSubmissions(form_type) :
           \E missing \in {x \in SUBSET required_names(form_type) : Cardinality(x) <= MaxMissing},
              override \in Overrides(form_type, valid) :
              /\ override # NoOverride => missing = {}
              /\ fn_in = [form_type |-> form_type, missing |-> missing, valid |-> valid,
                          override |-> override,
                          form_data |-> Overridden(Without(valid, missing, m), override),
                          current_year |-> current_year]
    /\ fn_out = Pending

\* is_valid, errors = processor.validate_form_data(form_data)
CallValidateFormData ==
    /\ fn_name = "validate_form_data"
    /\ ~fn_out.done
    /\ fn_out' = Returned(validate_form_data(fn_in.form_type, fn_in.form_data,
                                             fn_in.current_year))
    /\ UNCHANGED <<fn_name, fn_in>>
    /\ UNCHANGED <<pipeVars, rateVars>>

NextValidate == CallValidateFormData

SpecValidate == InitValidate /\ [][NextValidate]_vars

\* errors.get("field_errors", {}) of a returned validation
field_errors_of(v) == IF "field_errors" \in DOMAIN v.errors THEN v.errors["field_errors"] ELSE EmptyDict

\* C5: a submission in which exactly the required fields of a non-empty set S
\* are missing and every other field is valid is rejected by
\* validate_form_data, and the keys of field_errors are exactly S.
RequiredFieldRejectionExact ==
    (fn_name = "validate_form_data" /\ fn_out.done /\ fn_in.missing # {}) =>
        /\ ~fn_out.value.exc
        /\ ~fn_out.value.valid
        /\ DOMAIN field_errors_of(fn_out.value) = fn_in.missing

\* the same statement for the submissions in which no required field holds a
\* valid value that Python takes for false (the number 0)
RequiredFieldRejectionExactNoZero ==
    (/\ fn_name = "validate_form_data" /\ fn_out.done /\ fn_in.missing # {}
     /\ \A f \in DOMAIN fn_in.valid : fn_in.valid[f] # I(0)) =>
        /\ ~fn_out.value.exc
        /\ ~fn_out.value.valid
        /\ DOMAIN field_errors_of(fn_out.value) = fn_in.missing

-----------------------------------------------------------------------------
(* api/utils.py, api/errors.py and api/forms.py: the request front end *)

UpperSeq == <<"A", "B", "C", "D", "E", "F", "G", "H", "I", "J", "K", "L", "M",
              "N", "O", "P", "Q", "R", "S", "T", "U", "V", "W", "X", "Y", "Z">>

LowerSeq == <<"a", "b", "c", "d", "e", "f", "g", "h", "i", "j", "k", "l", "m",
              "n", "o", "p", "q", "r", "s", "t", "u", "v", "w", "x", "y", "z">>

\* str.lower()
Lower(s) ==
    [i \in 1..Len(s) |->
        IF s[i] \in UpperLetters THEN LowerSeq[CHOOSE k \in 1..Len(UpperSeq) : UpperSeq[k] = s[i]]
        ELSE s[i]]

\* filename.lower().split('.')[-1] if '.' in filename else ""
FileExt(filename) ==
    IF CountChar(filename, ".") = 0 THEN <<>>
    ELSE LET last == CHOOSE i \in 1..Len(filename) :
                        filename[i] = "." /\ \A j \in (i + 1)..Len(filename) : filename[j] # "."
         IN  Lower(SubSeq(filename, last + 1, Len(filename)))

\* allowed_types of the two validate_file_upload calls in submit_form
AllowedUploadTypes == {<<"j", "p", "g">>, <<"j", "p", "e", "g">>, <<"p", "n", "g">>,
                       <<"p", "d", "f">>, <<"d", "o", "c">>, <<"d", "o", "c", "x">>}

DangerousExtensions == {<<"e", "x", "e">>, <<"b", "a", "t">>, <<"c", "m", "d">>,
                        <<"s", "c", "r">>, <<"p", "i", "f">>, <<"v", "b", "s">>,
                        <<"j", "s">>, <<"j", "a", "r">>}

MaxUploadMb == 10

BytesPerMb == 1024 * 1024

\* validate_file_upload(file_data, allowed_types, max_size_mb): None when the
\* file is accepted, otherwise the error message
validate_file_upload(file_data, allowed_types, max_size_mb) ==
    IF ~Truthy(file_data) THEN S(<<"No file data provided">>)
    ELSE IF file_data.filename = <<>> THEN S(<<"File must have a name">>)
    ELSE IF FileExt(file_data.filename) \notin allowed_types
    THEN S(<<"File type '{0}' is not allowed. Allowed types: {1}">>)
    ELSE IF file_data.size > max_size_mb * BytesPerMb
    THEN S(<<"File size ({0:.1f}MB) exceeds maximum allowed size ({1}MB)">>)
    ELSE IF FileExt(file_data.filename) \in DangerousExtensions
    THEN S(<<"File type '{0}' is not allowed for security reasons">>)
    ELSE None

\* api_response(success, message, data, status_code, errors); EmptyDict stands
\* for data=None and errors=None
api_response(success, message, data, status_code, errors) ==
    LET response0 == [success |-> success, message |-> message, timestamp |-> "<now>",
                      status_code |-> status_code]
        error_info == [code |-> <<"ERROR_", status_code>>, message |-> message,
                       request_id |-> "<uuid4>"]
    IN  IF success /\ data # EmptyDict THEN DictSet(response0, "data", data)
        ELSE IF ~success THEN DictSet(response0, "error", DictUpdate(error_info, errors))
        ELSE response0

\* ValidationError(message, field_errors)
ValidationError(message, field_errors) ==
    [class |-> "ValidationError", message |-> message, status_code |-> 400,
     error_code |-> "VALIDATION_ERROR",
     details |-> IF field_errors # EmptyDict THEN [field_errors |-> field_errors] ELSE EmptyDict]

\* FileUploadError(message, file_errors)
FileUploadError(message, file_errors) ==
    [class |-> "FileUploadError", message |-> message, status_code |-> 400,
     error_code |-> "FILE_UPLOAD_ERROR",
     details |-> IF file_errors # <<>> THEN [file_errors |-> file_errors] ELSE EmptyDict]

\* the texts json.loads is given, with what it returns; ok is FALSE where it
\* raises JSONDecodeError
JsonNotJson == S(<<"{", "b">>)

JsonList == S(<<"[", "1", "]">>)

JsonObject == S(<<"{", "\"", "a", "\"", ":", "1", "}">>)

JsonEmptyObject == S(<<"{", "}">>)

\* the JSON text of a submission: its members are written as one symbol
JsonOf(name) == S(<<"{", name, "}">>)

\* get_form_processor(form_type): the processor class, "" for None
get_form_processor(form_type) ==
    CASE form_type = S(<<"small-project-register">>) -> "SmallProjectProcessor"
      [] form_type = S(<<"training-program">>) -> "TrainingProgramProcessor"
      [] form_type = S(<<"volunteer-program">>) -> "VolunteerProgramProcessor"
      [] form_type = S(<<"training-service">>) -> "TrainingServiceProcessor"
      [] form_type = S(<<"training-ad">>) -> "TrainingAdProcessor"
      [] form_type \in {S(<<"promote-project">>), S(<<"specs-memo-request">>),
                        S(<<"contract-opportunity">>), S(<<"contact-form">>)} ->
            "BusinessServiceProcessor"
      [] OTHER -> ""

\* the submissions the requests carry
TrainingSubmission ==
    [fullName |-> AName, phone |-> APhone, city |-> AText, age |-> I(MinTrainingAge)]

TrainingSubmissionNoCity == [TrainingSubmission EXCEPT !.city = None]

TokA == S(<<"a", "b", "c", "-", "1">>)

TokAPadded == S(<<" ", "a", "b", "c", "-", "1">>)

TokShort == S(<<"a", "b">>)

TokBadChar == S(<<"a", "b", "c", "!", "1", "2">>)

SmallProjectSubmission ==
    [ownerFullName |-> AName, governorate |-> AText, district |-> AText,
     neighborhood |-> AText, street |-> AText, age |-> I(30), primaryPhone |-> APhone,
     email |-> AnEmail, projectName |-> AText, projectStatus |-> StatusEstablished,
     capital |-> AnAmount, workersCount |-> I(3), startDate |-> ADate,
     products |-> AText, projectDescription |-> AText, idNumber |-> TokA]

\* json.loads(text)
json_loads(text) ==
    CASE text = JsonList -> [ok |-> TRUE, value |-> L(<<I(1)>>)]
      [] text = JsonObject -> [ok |-> TRUE, value |-> D([a |-> I(1)])]
      [] text = JsonEmptyObject -> [ok |-> TRUE, value |-> D(EmptyDict)]
      [] text = JsonOf("training") -> [ok |-> TRUE, value |-> D(TrainingSubmission)]
      [] text = JsonOf("small-project") -> [ok |-> TRUE, value |-> D(SmallProjectSubmission)]
      [] OTHER -> [ok |-> FALSE, value |-> None]

\* a request: its Content-Type, whether its body parses (get_json), the
\* parameters request_data holds, and the uploaded files in arrival order
Request(content_type, body_ok, form_type, form_data, token_id, uploads) ==
    [content_type |-> content_type, body_ok |-> body_ok,
     data |-> [form_type |-> form_type, form_data |-> form_data, token_id |-> token_id],
     uploads |-> uploads]

\* the file_errors list of submit_form, for single-file fields
FileErrors(uploads) ==
    LET bad == SelectSeq(uploads,
                   LAMBDA u : validate_file_upload(u[2], AllowedUploadTypes, MaxUploadMb) # None)
    IN  [i \in 1..Len(bad) |->
            [field |-> bad[i][1], filename |-> bad[i][2].filename,
             error |-> validate_file_upload(bad[i][2], AllowedUploadTypes, MaxUploadMb)]]

\* files_data as a dict
FilesData(uploads) ==
    [f \in {uploads[i][1] : i \in 1..Len(uploads)} |->
        uploads[CHOOSE i \in 1..Len(uploads) : uploads[i][1] = f][2]]

Raise(exc) == [kind |-> "raise", exc |-> exc]

Return(resp) == [kind |-> "return", response |-> resp]

\* the body of the try block of submit_form, up to the call of process_form:
\* it raises, returns a response, or hands the submission to a processor
submit_form_try(r) ==
    LET request_data == IF r.content_type = "application/json" /\ ~r.body_ok
                        THEN EmptyDict ELSE r.data
        files_data == IF r.content_type = "multipart/form-data" THEN r.uploads ELSE <<>>
        form_type == Get(request_data, "form_type")
        form_data == Get(request_data, "form_data")
        token_id == Get(request_data, "token_id")
        validation_errors ==
            DictUpdate(IF ~Truthy(form_type)
                       THEN [form_type |-> <<"Form type is required">>] ELSE EmptyDict,
                       IF ~Truthy(form_data)
                       THEN [form_data |-> <<"Form data is required">>] ELSE EmptyDict)
        parsed == IF isinstance_str(form_data) THEN json_loads(form_data)
                  ELSE [ok |-> TRUE, value |-> form_data]
        merged == DictUpdate(parsed.value.d, FilesData(files_data))
    IN  IF r.content_type = "application/json" /\ ~r.body_ok
        THEN Raise(ValidationError("Invalid JSON format",
                       [request_body |-> <<"Request body contains invalid JSON">>]))
        ELSE IF validation_errors # EmptyDict
        THEN Raise(ValidationError("Validation failed", validation_errors))
        ELSE IF ~parsed.ok
        THEN Raise(ValidationError("Validation failed",
                       [form_data |-> <<"Form data must be valid JSON">>]))
        ELSE IF parsed.value.t # "dict"
        THEN Raise(ValidationError("Validation failed",
                       [form_data |-> <<"Form data must be a JSON object">>]))
        ELSE IF FileErrors(files_data) # <<>>
        THEN Raise(FileUploadError("File validation failed", FileErrors(files_data)))
        ELSE IF get_form_processor(form_type) = ""
        THEN Return(api_response(FALSE, "Unsupported form type", EmptyDict, 400,
                        [form_type |-> << <<"Form type '{}' is not supported", form_type>> >>]))
        ELSE [kind |-> "process", processor |-> get_form_processor(form_type),
              form_type |-> form_type.s[1], form_data |-> merged, token_id |-> token_id]

\* the except clause of submit_form (lines 259-265)
submit_form_except(exc) ==
    api_response(FALSE, "An error occurred while processing your form", EmptyDict, 500, EmptyDict)

\* the end of the try block of submit_form (lines 244-257), given what
\* process_form returned
submit_form_respond(res) ==
    IF res["success"]
    THEN api_response(TRUE, "Form submitted successfully", res["data"], 201, EmptyDict)
    ELSE api_response(FALSE, res["message"], EmptyDict, 400, res["errors"])

\* handle_api_error: what the decorator turns an outcome of the wrapped
\* function into
handle_api_error(outcome) ==
    IF outcome.kind = "return" THEN outcome.response
    ELSE IF outcome.exc.class = "ValidationError"
    THEN api_response(FALSE, outcome.exc.message, EmptyDict, 400,
             [error_type |-> "validation_error",
              field_errors |-> IF "field_errors" \in DOMAIN outcome.exc.details
                               THEN outcome.exc.details.field_errors ELSE EmptyDict])
    ELSE IF outcome.exc.class = "FileUploadError"
    THEN api_response(FALSE, outcome.exc.message, EmptyDict, 400,
             [error_type |-> "file_upload_error",
              file_errors |-> IF "file_errors" \in DOMAIN outcome.exc.details
                              THEN outcome.exc.details.file_errors ELSE <<>>])
    ELSE api_response(FALSE, "An internal server error occurred. Please try again later.",
             EmptyDict, 500, [error_type |-> "server_error"])

-----------------------------------------------------------------------------
(* The pipeline: submit_form handing a submission to process_form *)

NumProcs == 2

\* the requests in flight
Procs == 1..NumProcs

NoUploads == <<>>

FormTypeTraining == S(<<"training-program">>)

FormTypeSmallProject == S(<<"small-project-register">>)

FormTypeBogus == S(<<"bogus-type">>)

AnExe == FileData(<<"a", ".", "e", "x", "e">>, 1)

\* requests that submit_form answers without calling a processor
FrontRequests ==
    {Request("application/json", FALSE, None, None, None, NoUploads),
     Request("application/json", TRUE, None, D(TrainingSubmission), None, NoUploads),
     Request("application/json", TRUE, FormTypeTraining, None, None, NoUploads),
     Request("application/json", TRUE, FormTypeTraining, D(EmptyDict), TokA, NoUploads),
     Request("multipart/form-data", TRUE, FormTypeTraining, JsonNotJson, None, NoUploads),
     Request("multipart/form-data", TRUE, FormTypeTraining, JsonList, None, NoUploads),
     Request("application/json", TRUE, FormTypeTraining, L(<<I(1)>>), None, NoUploads),
     Request("multipart/form-data", TRUE, FormTypeSmallProject, JsonOf("small-project"),
             None, << <<"idCardImage", AnExe>> >>),
     Request("application/json", TRUE, FormTypeBogus, D(TrainingSubmission), TokA, NoUploads),
     Request("multipart/form-data", TRUE, FormTypeBogus, JsonObject, None,
             << <<"idCardImage", APng>> >>),
     Request("multipart/form-data", TRUE, FormTypeBogus, JsonObject, None,
             << <<"idCardImage", AnExe>> >>)}

\* requests that reach a processor
TrainingRequests ==
    {Request("application/json", TRUE, FormTypeTraining, D(fd), tok, NoUploads) :
        fd \in {TrainingSubmission, TrainingSubmissionNoCity},
        tok \in {None, TokA, TokAPadded, TokShort}}
    \cup {Request("application/x-www-form-urlencoded", TRUE, FormTypeTraining,
                  JsonOf("training"), tok, NoUploads) : tok \in {TokBadChar, I(12345)}}
    \cup {Request("multipart/form-data", TRUE, FormTypeTraining, JsonEmptyObject, None,
                  NoUploads)}

\* values of projectStatus the requests carry besides the label of an
\* established project: another label, an internal code, and neither
RequestStatuses ==
    {StatusIdea, S(<<"C", "a", "n", "c", "e", "l", "l", "e", "d">>),
     S(<<"P", "e", "n", "d", "i", "n", "g">>)}

SmallProjectRequests ==
    {Request("multipart/form-data", TRUE, FormTypeSmallProject, JsonOf("small-project"),
             tok, << <<"idCardImage", f>> >>) : tok \in {None, TokA}, f \in {APng, APdf}}
    \cup {Request("application/json", TRUE, FormTypeSmallProject,
                  D([SmallProjectSubmission EXCEPT !.projectStatus = v]), None, NoUploads) :
             v \in RequestStatuses}

Requests == FrontRequests \cup TrainingRequests \cup SmallProjectRequests

\* the record types that exist in the store
DoctypeSets == {{"Training Registration", "Micro Enterprise Request"},
                {"Micro Enterprise Request"}}

NoLocals == [form_type |-> "", doctype |-> "", form_data |-> EmptyDict, token_id |-> None,
             mapped_data |-> EmptyDict, child_tables |-> EmptyDict, doc |-> None]

\* what is recorded about a request for the properties: the requests answered
\* before it arrived, whether the store held its token then, the number of
\* records holding the token when it was answered, and the collaborator
\* failures that happened while it was processed
NoObs == [before |-> {}, fresh |-> TRUE, matches_at_end |-> 0, faults |-> {}]

Init ==
    /\ doctypes \in DoctypeSets
    /\ store = <<>>
    /\ files = {}
    /\ errlog = {}
    /\ pc = [p \in Procs |-> "idle"]
    /\ req = [p \in Procs |-> EmptyDict]
    /\ loc = [p \in Procs |-> NoLocals]
    /\ result = [p \in Procs |-> EmptyDict]
    /\ response = [p \in Procs |-> EmptyDict]
    /\ obs = [p \in Procs |-> NoObs]
    /\ fn_name = "submit_form"
    /\ fn_in = EmptyDict
    /\ fn_out = Pending
    /\ NoRateLimit

\* the key the duplicate lookup and the insert use for a token
TokenKey(token_id) == S(Strip(token_id.s))

\* the records of a type that hold the token, if it is a str
Matches(st, doctype, token_id) ==
    IF isinstance_str(token_id) THEN get_value(st, doctype, TokenKey(token_id)) ELSE {}

\* frappe.log_error(message, title), written by request p
Logged(p, title, detail) == {[by |-> p, title |-> title, detail |-> detail]}

\* submit_form as the decorators see it: the try block, with its except clause
submit_form(r) ==
    LET out == submit_form_try(r)
    IN  IF out.kind = "raise" THEN Return(submit_form_except(out.exc)) ELSE out

\* submit_form up to the call of processor.process_form
Submit(p, r) ==
    /\ pc[p] = "idle"
    /\ req' = [req EXCEPT ![p] = r]
    /\ LET out == submit_form(r)
       IN  IF out.kind = "process"
           THEN /\ pc' = [pc EXCEPT ![p] = "received"]
                /\ loc' = [loc EXCEPT ![p] =
                             [NoLocals EXCEPT !.form_type = out.form_type,
                                              !.doctype = FORM_DOCTYPE_MAPPING[out.form_type],
                                              !.form_data = out.form_data,
                                              !.token_id = out.token_id]]
                /\ obs' = [obs EXCEPT ![p] =
                             [before |-> {q \in Procs : pc[q] = "responded"},
                              fresh |-> Matches(store, FORM_DOCTYPE_MAPPING[out.form_type],
                                                out.token_id) = {},
                              matches_at_end |-> 0, faults |-> {}]]
                /\ UNCHANGED <<response, errlog>>
           ELSE /\ pc' = [pc EXCEPT ![p] = "responded"]
                /\ response' = [response EXCEPT ![p] = handle_api_error(out)]
                /\ errlog' = errlog \cup
                      (IF submit_form_try(r).kind = "raise"
                       THEN Logged(p, "Form Submission", submit_form_try(r).exc.message)
                       ELSE {})
                /\ obs' = [obs EXCEPT ![p] =
                             [NoObs EXCEPT !.before = {q \in Procs : pc[q] = "responded"}]]
                /\ UNCHANGED loc
    /\ UNCHANGED <<doctypes, store, files, result>>
    /\ UNCHANGED <<fnVars, rateVars>>

\* Finish with a retry: a failed execution starts process_form again
FinishOrRetry(p, res, st, faults) ==
    /\ pc' = [pc EXCEPT ![p] = IF res["success"] THEN "responded" ELSE "received"]
    /\ result' = [result EXCEPT ![p] = res]
    /\ response' = [response EXCEPT ![p] = handle_api_error(Return(submit_form_respond(res)))]
    /\ obs' = [obs EXCEPT ![p].matches_at_end =
                                Cardinality(Matches(st, loc[p].doctype, loc[p].token_id)),
                            ![p].faults = @ \cup faults]

\* process_form returns res and submit_form answers with it
Finish(p, res, st, faults) ==
    /\ pc' = [pc EXCEPT ![p] = "responded"]
    /\ result' = [result EXCEPT ![p] = res]
    /\ response' = [response EXCEPT ![p] = handle_api_error(Return(submit_form_respond(res)))]
    /\ obs' = [obs EXCEPT ![p].matches_at_end =
                                Cardinality(Matches(st, loc[p].doctype, loc[p].token_id)),
                            ![p].faults = @ \cup faults]

token_rejected(token_error) ==
    [success |-> FALSE, message |-> token_error, errors |-> [token_id |-> <<token_error>>]]

\* a validation rejection that carries no errors
validation_rejected_without_errors(validation_errors) ==
    [success |-> FALSE, message |-> "Form validation failed", errors |-> EmptyDict]

validation_rejected(validation_errors) ==
    [success |-> FALSE, message |-> "Form validation failed", errors |-> validation_errors]

\* the exceptions a collaborator raises: a class and the text str(e) gives
Exceptions ==
    {[class |-> "DuplicateEntryError", message |-> "Duplicate entry 'DOC-1' for key 'PRIMARY'"],
     [class |-> "OperationalError", message |-> "Lock wait timeout exceeded"],
     [class |-> "InternalError", message |-> "Lock wait timeout exceeded"]}

\* the except clause of process_form (lines 451-459)
processing_failed(e) ==
    [success |-> FALSE, message |-> "An error occurred while processing the form",
     errors |-> [general |-> <<e.message>>]]

\* process_form, "Validate token_id if provided" (lines 384-391)
ValidateToken(p) ==
    /\ pc[p] = "received"
    /\ \E db_raises \in BOOLEAN :
         LET token_id == loc[p].token_id
             checks == /\ Truthy(token_id)
                       /\ validate_token_format(token_id) = None
                       /\ loc[p].doctype \in doctypes
             v == validate_token_id(token_id, loc[p].doctype, doctypes, store, db_raises)
         IN  /\ db_raises => checks
             /\ errlog' = errlog \cup
                   (IF db_raises THEN Logged(p, "Error", "Error checking duplicate token")
                    ELSE IF v.is_duplicate
                    THEN Logged(p, "Duplicate Token Submission", "Duplicate token_id submission")
                    ELSE {})
             /\ IF ~v.is_valid
                THEN Finish(p, token_rejected(v.error), store, {})
                ELSE /\ pc' = [pc EXCEPT ![p] = "token_validated"]
                     /\ obs' = [obs EXCEPT ![p].faults =
                                   IF db_raises THEN {"get_value"} ELSE {}]
                     /\ UNCHANGED <<result, response>>
    /\ UNCHANGED <<doctypes, store, files, req, loc>>
    /\ UNCHANGED <<fnVars, rateVars>>

\* process_form, "Validate form data" (lines 393-400); a validator that raises
\* lands in the except clause
ValidateForm(p) ==
    /\ pc[p] = "token_validated"
    /\ \E current_year \in CurrentYears :
         LET v == validate_form_data(loc[p].form_type, loc[p].form_data, current_year)
         IN  IF v.exc
             THEN /\ Finish(p, processing_failed([class |-> "TypeError",
                                                       message |-> "expected string or bytes-like object"]),
                            store, {})
                  /\ errlog' = errlog \cup Logged(p, "Error", "Form processing error")
                  /\ UNCHANGED loc
             ELSE IF ~v.valid
             THEN /\ Finish(p, validation_rejected(v.errors), store, {})
                  /\ UNCHANGED <<loc, errlog>>
             ELSE /\ pc' = [pc EXCEPT ![p] = "form_validated"]
                  /\ loc' = [loc EXCEPT ![p].form_data = v.form_data]
                  /\ UNCHANGED <<result, response, obs, errlog>>
    /\ UNCHANGED <<doctypes, store, files, req>>
    /\ UNCHANGED <<fnVars, rateVars>>

\* processor.map_form_fields(form_data) of the processors the requests reach
map_form_fields(form_type, form_data, current_year) ==
    IF form_type = "small-project-register"
    THEN SmallProject_map_form_fields(form_data, current_year)
    ELSE TrainingProgram_map_form_fields(form_data)

\* process_form, "Map form fields" and "Add token_id if provided" (lines 402-407)
MapFields(p) ==
    /\ pc[p] = "form_validated"
    /\ \E current_year \in CurrentYears :
         LET m == map_form_fields(loc[p].form_type, loc[p].form_data, current_year)
         IN  loc' = [loc EXCEPT ![p].mapped_data =
                                    IF Truthy(loc[p].token_id)
                                    THEN DictSet(m.mapped_data, "token_id", TokenKey(loc[p].token_id))
                                    ELSE m.mapped_data,
                                ![p].child_tables = m.child_tables]
    /\ pc' = [pc EXCEPT ![p] = "fields_mapped"]
    /\ UNCHANGED <<doctypes, store, files, errlog, req, result, response, obs>>
    /\ UNCHANGED <<fnVars, rateVars>>

\* the name the store gives the next inserted document
NewName(st) == S(<<"D", "O", "C", "-">> \o DigitsOfNat(Len(st) + 1))

Open == S(<<"O", "p", "e", "n">>)

\* the result of the placeholder branch (lines 411-424)
placeholder_result(form_type, doctype, token_id) ==
    [success |-> TRUE,
     message |-> <<"Form submitted successfully (DocType {0} not found - using placeholder)", doctype>>,
     data |-> [record_id |-> S(<<"placeholder_", form_type, "_", "<now>">>),
               doctype |-> doctype, status |-> Open, token_id |-> token_id,
               note |-> <<"DocType '{0}' does not exist yet", doctype>>]]

\* the result of lines 440-449; doc is the stored document
success_result(doc, doctype, token_id) ==
    [success |-> TRUE, message |-> "Form submitted successfully",
     data |-> [record_id |-> doc.name, doctype |-> doctype,
               status |-> IF "status" \in DOMAIN doc.fields /\ doc.fields["status"] # None
                          THEN doc.fields["status"] ELSE Open,
               token_id |-> token_id]]

\* frappe.get_doc({"doctype": ..., **mapped_data}) with the child rows of
\* ChildTableManager.populate_child_tables, as doc.insert stores it
NewDocument(p, st, doctype, mapped_data, child_tables) ==
    [name |-> NewName(st), doctype |-> doctype, by |-> p, fields |-> mapped_data,
     child_tables |-> child_tables, image |-> None]

\* the steps of record creation in which the persistence collaborator can raise
CreateFaults == {"get_doc", "append", "insert"}

\* process_form, lines 409-435: the placeholder branch, or get_doc,
\* populate_child_tables and insert
CreateRecord(p) ==
    /\ pc[p] = "fields_mapped"
    /\ IF loc[p].doctype \notin doctypes
       THEN /\ Finish(p, placeholder_result(loc[p].form_type, loc[p].doctype, loc[p].token_id),
                      store, {})
            /\ UNCHANGED <<store, loc, errlog>>
       ELSE \E fault \in CreateFaults \cup {"none"}, e \in Exceptions :
              /\ fault = "append" => loc[p].child_tables # EmptyDict
              /\ IF fault = "none"
                 THEN /\ store' = Append(store, NewDocument(p, store, loc[p].doctype,
                                             loc[p].mapped_data, loc[p].child_tables))
                      /\ loc' = [loc EXCEPT ![p].doc = NewName(store)]
                      /\ pc' = [pc EXCEPT ![p] = "record_inserted"]
                      /\ UNCHANGED <<result, response, obs, errlog>>
                 ELSE /\ Finish(p, processing_failed(e), store, {fault})
                      /\ errlog' = errlog \cup Logged(p, "Error", "Form processing error")
                      /\ UNCHANGED <<store, loc>>
    /\ UNCHANGED <<doctypes, files, req>>
    /\ UNCHANGED <<fnVars, rateVars>>

\* file_field_mappings of attach_files_to_document: the form type's file field
file_field(form_type) ==
    CASE form_type = "small-project-register" -> "idCardImage"
      [] form_type = "contract-opportunity" -> "cvFile"
      [] form_type = "promote-project" -> "files"
      [] OTHER -> ""

\* FileValidator.FILE_TYPE_CONFIGS[field]["extensions"], without the dot
ConfigExtensions(field) ==
    CASE field = "cvFile" -> {<<"p", "d", "f">>, <<"d", "o", "c">>, <<"d", "o", "c", "x">>}
      [] OTHER -> {<<"j", "p", "g">>, <<"j", "p", "e", "g">>, <<"p", "n", "g">>}

\* the stored document named name
DocIndex(st, name) == CHOOSE i \in 1..Len(st) : st[i].name = name

\* the store after attach_files_to_document with the insert undone when
\* doc.save raises
StoreAfterAttachRolledBack(st, i, is_image, save_raises, file_url) ==
    IF save_raises THEN SubSeq(st, 1, i - 1) \o SubSeq(st, i + 1, Len(st))
    ELSE IF is_image THEN [st EXCEPT ![i].image = file_url]
    ELSE st

\* the store after attach_files_to_document: `doc.image = file_url` and
\* doc.save for an uploaded ID card image (file_handler.py lines 518-521);
\* a save that raises changes nothing, and nothing undoes the insert
StoreAfterAttach(st, i, is_image, save_raises, file_url) ==
    IF is_image /\ ~save_raises THEN [st EXCEPT ![i].image = file_url]
    ELSE st

\* process_form, lines 437-449: handle_file_attachments for a single-file
\* field, then the success result.  The upload collaborator accepts or
\* refuses the file (it refuses an extension its configuration does not
\* list); doc.save after an accepted ID card image can raise.
AttachFiles(p) ==
    /\ pc[p] = "record_inserted"
    /\ LET field == file_field(loc[p].form_type)
           file_data == Get(loc[p].form_data, field)
           has_file == field # "" /\ Has(loc[p].form_data, field) /\ file_data.t = "file"
           i == DocIndex(store, loc[p].doc)
       IN  IF ~has_file
           THEN /\ Finish(p, success_result(store[i], loc[p].doctype, loc[p].token_id), store, {})
                /\ UNCHANGED <<store, files, errlog>>
           ELSE \E upload_ok \in BOOLEAN, save_raises \in BOOLEAN, e \in Exceptions :
                  /\ upload_ok => FileExt(file_data.filename) \in ConfigExtensions(field)
                  /\ save_raises => upload_ok /\ field = "idCardImage"
                  /\ files' = IF upload_ok
                              THEN files \cup {[attached_to_doctype |-> loc[p].doctype,
                                                attached_to_name |-> loc[p].doc,
                                                field_name |-> field, by |-> p]}
                              ELSE files
                  /\ store' = StoreAfterAttach(store, i, upload_ok /\ field = "idCardImage",
                                                save_raises, S(<<"/files/">> \o file_data.filename))
                  /\ errlog' = errlog \cup
                        (IF save_raises THEN Logged(p, "Error", "Form processing error")
                         ELSE IF ~upload_ok /\ loc[p].form_type # "small-project-register"
                         THEN Logged(p, "File Attachment Error", "File attachment errors")
                         ELSE {})
                  /\ IF save_raises
                     THEN Finish(p, processing_failed(e), store', {"save"})
                     ELSE Finish(p, success_result(store'[i], loc[p].doctype, loc[p].token_id),
                                 store', IF upload_ok THEN {} ELSE {"upload"})
    /\ UNCHANGED <<doctypes, req, loc>>
    /\ UNCHANGED <<fnVars, rateVars>>

Next ==
    \E p \in Procs :
        \/ \E r \in Requests : Submit(p, r)
        \/ ValidateToken(p)
        \/ ValidateForm(p)
        \/ MapFields(p)
        \/ CreateRecord(p)
        \/ AttachFiles(p)

Spec == Init /\ [][Next]_vars

-----------------------------------------------------------------------------
(* Properties of the pipeline *)

\* request p has been answered
Responded(p) == pc[p] = "responded"

\* submit_form handed request p to processor.process_form
Processed(p) == loc[p].form_type # ""

\* the token is supplied and its format is accepted
ValidToken(token_id) == Truthy(token_id) /\ validate_token_format(token_id) = None

\* requests p and q carry the same valid token
SameToken(p, q) ==
    /\ ValidToken(loc[p].token_id)
    /\ ValidToken(loc[q].token_id)
    /\ TokenKey(loc[p].token_id) = TokenKey(loc[q].token_id)

Accepts(v) == ~v.exc /\ v.valid

\* the form data request p submitted passes its processor's validation
OtherwiseValid(p) ==
    \A current_year \in CurrentYears :
        Accepts(validate_form_data(loc[p].form_type, submit_form_try(req[p]).form_data,
                                   current_year))

\* the stored records request p inserted
RecordsBy(p) == {i \in 1..Len(store) : store[i].by = p}

\* q arrived after p was answered, both were processed for the same form type,
\* whose record type exists, with the same valid token
OneAfterTheOther(p, q) ==
    /\ p # q
    /\ Processed(p)
    /\ Processed(q)
    /\ p \in obs[q].before
    /\ loc[p].form_type = loc[q].form_type
    /\ loc[p].doctype \in doctypes
    /\ SameToken(p, q)

\* C1's case: p is the first submission of the token and is valid, q is the
\* second, no collaborator raised for either and no other request was made
SequentialDuplicate(p, q) ==
    /\ OneAfterTheOther(p, q)
    /\ Responded(q)
    /\ obs[p].fresh
    /\ OtherwiseValid(p)
    /\ obs[p].faults \subseteq {"upload"}
    /\ obs[q].faults = {}
    /\ \A r \in Procs \ {p, q} : pc[r] = "idle"

\* C1: when the record type exists and two submissions with the same valid
\* token are processed one after the other for the same form type, the first
\* one valid and first to use the token and no collaborator raising, the first
\* returns success, the second returns failure with a token_id error whatever
\* form data it carries, and the store then holds exactly one record with the
\* token
SequentialDuplicateRejected ==
    \A p, q \in Procs :
        SequentialDuplicate(p, q) =>
            /\ result[p]["success"]
            /\ ~result[q]["success"]
            /\ "token_id" \in DOMAIN result[q]["errors"]
            /\ obs[q].matches_at_end = 1

\* C1's case happens, the second submission carrying other form data than the first
SequentialDuplicateSeen ==
    \E p, q \in Procs :
        /\ SequentialDuplicate(p, q)
        /\ loc[q].form_data # loc[p].form_data
        /\ result[p]["success"]
        /\ "token_id" \in DOMAIN result[q]["errors"]

TokenRaceSeen ==
    \E p, q \in Procs :
        /\ p # q
        /\ Responded(p) /\ Processed(p)
        /\ Responded(q) /\ Processed(q)
        /\ p \notin obs[q].before
        /\ q \notin obs[p].before
        /\ loc[p].doctype = loc[q].doctype
        /\ loc[p].doctype \in doctypes
        /\ SameToken(p, q)
        /\ obs[p].faults = {} /\ obs[q].faults = {}
        /\ result[p]["success"] /\ result[q]["success"]
        /\ RecordsBy(p) # {} /\ RecordsBy(q) # {}

\* the uploaded files request p attached
FilesBy(p) == {f \in files : f.by = p}

\* in this step process_form rejects request p because token validation or
\* form validation failed (the except clause answers with a "general" error)
RejectedByValidation(p) ==
    /\ pc[p] \in {"received", "token_validated"}
    /\ pc'[p] = "responded"
    /\ "general" \notin DOMAIN result'[p]["errors"]

\* C3: whenever process_form rejects a submission because token validation or
\* form validation failed, the store is unchanged by the call (no record was
\* created or inserted for it, no child row, no file) and the result has
\* success = false with a non-empty error set
NoRecordOnRejection ==
    [][\A p \in Procs :
          RejectedByValidation(p) =>
              /\ store' = store
              /\ files' = files
              /\ RecordsBy(p) = {}
              /\ FilesBy(p) = {}
              /\ ~result'[p]["success"]
              /\ DOMAIN result'[p]["errors"] # {}]_vars

\* C3's case happens: a request was rejected by validation while the store
\* held another request's record, and nothing of the rejected one is stored
NoRecordOnRejectionSeen ==
    \E p \in Procs :
        /\ Responded(p)
        /\ Processed(p)
        /\ ~result[p]["success"]
        /\ DOMAIN result[p]["errors"] \in {{"token_id"}, {"field_errors"}}
        /\ store # <<>>
        /\ RecordsBy(p) = {}
        /\ FilesBy(p) = {}

\* C4, as stated: whenever process_form returns success = true, exactly one
\* record of the form type's record type was inserted during the call and the
\* returned record_id is its name
SuccessCreatesOneRecord ==
    \A p \in Procs :
        (Responded(p) /\ Processed(p) /\ result[p]["success"]) =>
            /\ Cardinality(RecordsBy(p)) = 1
            /\ \A i \in RecordsBy(p) :
                   /\ store[i].doctype = loc[p].doctype
                   /\ store[i].name = result[p]["data"]["record_id"]

\* C4 where the record type exists: success then means one inserted record,
\* named by record_id
SuccessCreatesOneRecordOfExistingType ==
    \A p \in Procs :
        (Responded(p) /\ Processed(p) /\ result[p]["success"] /\ loc[p].doctype \in doctypes) =>
            /\ Cardinality(RecordsBy(p)) = 1
            /\ \A i \in RecordsBy(p) :
                   /\ store[i].doctype = loc[p].doctype
                   /\ store[i].name = result[p]["data"]["record_id"]

\* the status code is in the class of hundreds
StatusClass(resp, hundreds) == resp["status_code"] \div 100 = hundreds

\* the request is one submit_form rejects itself: form_type or form_data is
\* missing, form_data is a string that is not valid JSON or is not a JSON
\* object, or an uploaded file fails validation
DeliberatelyRejected(r) ==
    /\ r.content_type = "application/json" => r.body_ok
    /\ submit_form_try(r).kind = "raise"

\* C6, as stated: every rejection submit_form constructs itself (form_type
\* missing, form_data missing, form_data not valid JSON, form_data not a JSON
\* object, a file failing validation) is answered with a 400-class status and
\* carries the structured field_errors or file_errors
DeliberateRejectionsAre400 ==
    \A p \in Procs :
        (Responded(p) /\ DeliberatelyRejected(req[p])) =>
            /\ StatusClass(response[p], 4)
            /\ \/ "field_errors" \in DOMAIN response[p]["error"]
               \/ "file_errors" \in DOMAIN response[p]["error"]

\* json.loads gives a non-empty object, or the value is one
NonEmptyJsonObject(form_data) ==
    \/ form_data.t = "dict" /\ DOMAIN form_data.d # {}
    \/ /\ isinstance_str(form_data)
       /\ json_loads(form_data).ok
       /\ json_loads(form_data).value.t = "dict"
       /\ DOMAIN json_loads(form_data).value.d # {}

\* the request names a form type outside the nine registered ones and carries
\* a non-empty JSON object as form_data
UnsupportedFormType(r) ==
    /\ r.content_type = "application/json" => r.body_ok
    /\ isinstance_str(r.data.form_type)
    /\ get_form_processor(r.data.form_type) = ""
    /\ NonEmptyJsonObject(r.data.form_data)

\* C7, as stated: a request with an unregistered form type and a non-empty
\* JSON-object form_data is answered with status 400 and a form_type error, no
\* processor runs and no record is created
UnsupportedFormTypeIs400 ==
    \A p \in Procs :
        (Responded(p) /\ UnsupportedFormType(req[p])) =>
            /\ response[p]["status_code"] = 400
            /\ "form_type" \in DOMAIN response[p]["error"]
            /\ ~Processed(p)
            /\ RecordsBy(p) = {}

\* C7 for the requests whose uploaded files all pass validate_file_upload
UnsupportedFormTypeIs400WithoutBadFile ==
    \A p \in Procs :
        (Responded(p) /\ UnsupportedFormType(req[p])
         /\ (req[p].content_type = "multipart/form-data" => FileErrors(req[p].uploads) = <<>>)) =>
            /\ response[p]["status_code"] = 400
            /\ "form_type" \in DOMAIN response[p]["error"]
            /\ ~Processed(p)
            /\ RecordsBy(p) = {}

\* C8, as stated: when get_doc, the child-row append or insert raises for a
\* submission that passed token and form validation, submit_form answers with
\* a 500-class status
PersistenceFailuresAre500 ==
    \A p \in Procs :
        (Responded(p) /\ obs[p].faults \cap CreateFaults # {}) => StatusClass(response[p], 5)

\* C9, as stated: once the record of a validated submission is inserted,
\* process_form returns success = true whether the attachment collaborator
\* reports errors or raises
AttachmentNeverFails ==
    \A p \in Procs :
        (Responded(p) /\ RecordsBy(p) # {}) => result[p]["success"]

\* C9 for the attachments that report errors without raising
AttachmentErrorsDoNotFail ==
    \A p \in Procs :
        (Responded(p) /\ RecordsBy(p) # {} /\ "save" \notin obs[p].faults) => result[p]["success"]

\* the phases of process_form in their order, and the steps between them: to
\* the next phase, or to the one terminal position
Phases == <<"received", "token_validated", "form_validated", "fields_mapped", "record_inserted">>

PhaseSteps ==
    {<<Phases[i], Phases[i + 1]>> : i \in 1..(Len(Phases) - 1)}
        \cup {<<Phases[i], "responded">> : i \in 1..Len(Phases)}
        \cup {<<"idle", "received">>, <<"idle", "responded">>}

\* C17: every step of a request moves it to the next phase of process_form
\* (token validation, form validation, field mapping, record insert, file
\* attachment) or ends it; no phase is entered twice or out of order, a record
\* is inserted only by the insert phase and after the fields were mapped, files
\* are attached only after the insert, a request inserts at most one record, and
\* a request that has ended has one result, which no later step changes.
PipelineOrder ==
    [][\A p \in Procs :
          /\ pc'[p] # pc[p] => <<pc[p], pc'[p]>> \in PhaseSteps
          /\ RecordsBy(p)' # RecordsBy(p) =>
                /\ pc[p] = "fields_mapped" /\ pc'[p] = "record_inserted"
                /\ Cardinality(RecordsBy(p)') = 1
          /\ FilesBy(p)' # FilesBy(p) => pc[p] = "record_inserted" /\ pc'[p] = "responded"
          /\ (pc[p] # "responded" /\ pc'[p] = "responded" /\ pc[p] # "idle") =>
                result'[p]["success"] \in BOOLEAN
          /\ pc[p] = "responded" =>
                /\ pc'[p] = "responded"
                /\ result'[p] = result[p]
                /\ response'[p] = response[p]]_vars

\* C17 witness: a request with a token went through every phase, inserted its
\* record, attached its file and ended in success, while another request ended
\* rejected after token validation
PipelineOrderSeen ==
    \E p, q \in Procs :
        /\ pc[p] = "responded"
        /\ Truthy(loc[p].token_id)
        /\ result[p]["success"]
        /\ RecordsBy(p) # {}
        /\ FilesBy(p) # {}
        /\ pc[q] = "responded"
        /\ Processed(q)
        /\ ~result[q]["success"]
        /\ RecordsBy(q) = {}

-----------------------------------------------------------------------------
(* Frame of validate_form_data *)

\* C21: validate_form_data leaves the submission as it was: after the call
\* form_data has the keys and values it had before
ValidationLeavesSubmission ==
    (fn_name = "validate_form_data" /\ fn_out.done)
        => fn_out.value.form_data = fn_in.form_data

\* the same, for the submissions that carry no recognised status label
ValidationLeavesSubmissionButStatus ==
    (fn_name = "validate_form_data" /\ fn_out.done
     /\ ~(fn_in.form_type = "small-project-register"
          /\ Get(fn_in.form_data, "projectStatus") \in DOMAIN status_mapping))
        => fn_out.value.form_data = fn_in.form_data

\* two finished executions of the same submission in which the persistence or
\* attachment collaborator raised at the same step
SameFailure(p, q) ==
    /\ Responded(p) /\ Responded(q)
    /\ req[p] = req[q]
    /\ obs[p].faults = obs[q].faults
    /\ obs[p].faults \cap (CreateFaults \cup {"save"}) # {}

\* C22: two executions of the same submission that differ only in the
\* exception the persistence or attachment collaborator raises return the
\* same result to the caller
ExceptionTextHidden ==
    \A p, q \in Procs :
        SameFailure(p, q) => result[p] = result[q] /\ response[p] = response[q]

\* what the two results share whatever the exception: the outcome, the
\* message and the status of the response
ExceptionTextOnlyInGeneral ==
    \A p, q \in Procs :
        SameFailure(p, q) =>
            /\ ~result[p]["success"]
            /\ result[p]["message"] = result[q]["message"]
            /\ DOMAIN result[p] = DOMAIN result[q]
            /\ DOMAIN result[p]["errors"] = {"general"}
            /\ response[p]["status_code"] = response[q]["status_code"]
            /\ response[p]["message"] = response[q]["message"]

\* the run built one row of a table in which projectDescription, the first
\* source, and products both map to project_detials and project_detials has
\* the description processor
ConsumedRun ==
    /\ fn_name = "_process_single_table"
    /\ fn_out.done
    /\ NarrativeProcessed
    /\ target_field_sources(fn_in.table_config.field_mappings, "project_detials")
           = <<"projectDescription", "products">>
    /\ fn_out.value.t = "list"

\* C23: the sources of a processed fan-in target are left out of the direct
\* pass; when projectDescription is absent or blank, the row has no
\* project_detials, even when products is not blank
FanInSourcesConsumed ==
    (ConsumedRun /\ IsBlank(Get(fn_in.form_data, "projectDescription")))
        => "project_detials" \notin DOMAIN fn_out.value.l[1]

\* C23 for a description that is absent or the empty text, and for every run:
\* project_detials is in the row exactly when the processor, applied to
\* projectDescription, returns a value, and is that value
FanInSourcesConsumedByProcessor ==
    ConsumedRun =>
        LET row_holds(row, processed_value) ==
                /\ "project_detials" \in DOMAIN row <=> processed_value # None
                /\ processed_value # None => row.project_detials = processed_value
                /\ ~Truthy(Get(fn_in.form_data, "projectDescription"))
                       => "project_detials" \notin DOMAIN row
        IN  row_holds(fn_out.value.l[1],
                      _process_project_description(Get(fn_in.form_data, "projectDescription"),
                                                   fn_in.form_data))

-----------------------------------------------------------------------------
(* Phone and status checks of validate_form_data *)

\* validate_form_data returned for a submission whose phone field holds a
\* value, v
PhoneRun(form_type, v) ==
    /\ fn_name = "validate_form_data"
    /\ fn_out.done
    /\ fn_in.form_type = form_type
    /\ Has(fn_in.form_data, phone_field(form_type))
    /\ Get(fn_in.form_data, phone_field(form_type)) = v
    /\ v # None

\* the validation was a rejection with an error on the form type's phone field
PhoneRejected(form_type) ==
    /\ ~fn_out.value.exc
    /\ ~fn_out.value.valid
    /\ phone_field(form_type) \in DOMAIN field_errors_of(fn_out.value)

\* C24: for every form type with a phone field, a phone value with fewer than
\* nine digits is rejected with an error on that field
ShortPhoneRejected ==
    \A form_type \in FormTypes :
        \A v \in {Get(fn_in.form_data, phone_field(form_type))} :
            (PhoneRun(form_type, v) /\ Len(Keep(StrOf(v), Digits)) < MinPhoneDigits)
                => PhoneRejected(form_type)

\* what the validators test: for small-project-register the length of the
\* stripped text against seven, for the other form types the number of digits
\* and plus signs of a text against nine
ShortPhoneRejectedAsCounted ==
    \A form_type \in FormTypes :
        \A v \in {Get(fn_in.form_data, phone_field(form_type))} :
            (PhoneRun(form_type, v) /\ isinstance_str(v)
             /\ IF form_type = "small-project-register"
                THEN Len(Strip(v.s)) < PhoneMinLength
                ELSE Len(Keep(v.s, Digits \cup {"+"})) < MinPhoneDigits)
                => PhoneRejected(form_type)

\* request p carried a small-project-register submission to process_form and
\* v is the projectStatus it submitted
StatusSubmitted(p, v) ==
    /\ loc[p].form_type = "small-project-register"
    /\ req[p].data.form_data.t \in {"dict", "str"}
    /\ v = Get(IF req[p].data.form_data.t = "str"
               THEN json_loads(req[p].data.form_data).value.d
               ELSE req[p].data.form_data.d, "projectStatus")

-----------------------------------------------------------------------------
(* config/cors.py, api/middleware.py cors_handler, api/cors_fix.py and the
   response headers api_response sets *)

\* the Origin headers of the requests
OriginLocal3000 ==
    S(<<"h", "t", "t", "p", ":", "/", "/", "l", "o", "c", "a", "l", "h", "o", "s", "t", ":",
      "3", "0", "0", "0">>)

OriginLocal5173 ==
    S(<<"h", "t", "t", "p", ":", "/", "/", "l", "o", "c", "a", "l", "h", "o", "s", "t", ":",
      "5", "1", "7", "3">>)

OriginLocal8080 ==
    S(<<"h", "t", "t", "p", ":", "/", "/", "l", "o", "c", "a", "l", "h", "o", "s", "t", ":",
      "8", "0", "8", "0">>)

OriginNetlify ==
    S(<<"h", "t", "t", "p", "s", ":", "/", "/", "g", "r", "a", "d", "u", "a", "t", "i", "o",
      "n", "-", "p", "r", "o", "j", "e", "c", "t", "-", "d", "e", "l", "t", "a", "-", "g",
      "r", "e", "e", "n", ".", "n", "e", "t", "l", "i", "f", "y", ".", "a", "p", "p">>)

OriginLoop5173 ==
    S(<<"h", "t", "t", "p", ":", "/", "/", "1", "2", "7", ".", "0", ".", "0", ".", "1", ":",
      "5", "1", "7", "3">>)

OriginLocal9999 ==
    S(<<"h", "t", "t", "p", ":", "/", "/", "l", "o", "c", "a", "l", "h", "o", "s", "t", ":",
      "9", "9", "9", "9">>)

OriginEvil ==
    S(<<"h", "t", "t", "p", "s", ":", "/", "/", "e", "v", "i", "l", ".", "e", "x", "a", "m",
      "p", "l", "e">>)

OriginEvilLocalhost ==
    S(<<"h", "t", "t", "p", "s", ":", "/", "/", "l", "o", "c", "a", "l", "h", "o", "s", "t",
      ".", "e", "v", "i", "l", ".", "e", "x", "a", "m", "p", "l", "e">>)

OriginFile ==
    S(<<"f", "i", "l", "e", ":", "/", "/", "x">>)

OriginWithPath ==
    S(<<"h", "t", "t", "p", ":", "/", "/", "l", "o", "c", "a", "l", "h", "o", "s", "t", ":",
      "3", "0", "0", "0", "/", "a">>)

suspicious_patterns ==
    {<<"j", "a", "v", "a", "s", "c", "r", "i", "p", "t", ":">>,
     <<"d", "a", "t", "a", ":">>,
     <<"f", "i", "l", "e", ":">>,
     <<"f", "t", "p", ":">>,
     <<"<", "s", "c", "r", "i", "p", "t">>,
     <<"%", "3", "C", "s", "c", "r", "i", "p", "t">>,
     <<"v", "b", "s", "c", "r", "i", "p", "t", ":">>,
     <<"a", "b", "o", "u", "t", ":">>,
     <<"c", "h", "r", "o", "m", "e", ":">>,
     <<"c", "h", "r", "o", "m", "e", "-", "e", "x", "t", "e", "n", "s", "i", "o", "n", ":">>,
     <<"m", "o", "z", "-", "e", "x", "t", "e", "n", "s", "i", "o", "n", ":">>,
     <<"s", "a", "f", "a", "r", "i", "-", "e", "x", "t", "e", "n", "s", "i", "o", "n", ":">>,
     <<"m", "s", "-", "b", "r", "o", "w", "s", "e", "r", "-", "e", "x", "t", "e", "n", "s", "i", "o", "n", ":">>}

\* DEFAULT_CORS_CONFIG["allowed_origins"]
cors_allowed_origins == {OriginLocal3000, OriginLocal5173, OriginLocal8080, OriginNetlify}

\* allowed_origins of apply_cors_headers; the origins of the requests among them
fix_allowed_origins ==
    {OriginLocal3000, OriginLocal5173, OriginLocal8080, OriginLoop5173, OriginNetlify}

HasPrefix(s, prefix) == Len(s) >= Len(prefix) /\ SubSeq(s, 1, Len(prefix)) = prefix

\* the text of s before the first character of stops, and from it on
Before(s, stops) ==
    IF \E i \in 1..Len(s) : s[i] \in stops
    THEN SubSeq(s, 1, (CHOOSE i \in 1..Len(s) :
                          s[i] \in stops /\ \A j \in 1..(i - 1) : s[j] \notin stops) - 1)
    ELSE s

From(s, stops) == SubSeq(s, Len(Before(s, stops)) + 1, Len(s))

\* urlparse(origin): scheme, netloc, hostname and what follows the netloc
urlparse(origin) ==
    LET parsed(scheme, rest) ==
            [scheme |-> scheme, netloc |-> Before(rest, {"/", "?", "#"}),
             hostname |-> Before(Before(rest, {"/", "?", "#"}), {":"}),
             tail |-> From(rest, {"/", "?", "#"})]
    IN  IF HasPrefix(origin, <<"h", "t", "t", "p", ":", "/", "/">>)
        THEN parsed(<<"h", "t", "t", "p">>, SubSeq(origin, 8, Len(origin)))
        ELSE IF HasPrefix(origin, <<"h", "t", "t", "p", "s", ":", "/", "/">>)
        THEN parsed(<<"h", "t", "t", "p", "s">>, SubSeq(origin, 9, Len(origin)))
        ELSE parsed(Before(origin, {":"}), <<>>)

\* _is_valid_origin_format: an http or https scheme, a netloc, no path but "/",
\* no query or fragment, and a hostname of letters, digits, dots and hyphens
\* that begins and ends with a letter or digit
_is_valid_origin_format(origin) ==
    LET valid(parsed) ==
            /\ parsed.scheme \in {<<"h", "t", "t", "p">>, <<"h", "t", "t", "p", "s">>}
            /\ parsed.netloc # <<>>
            /\ parsed.tail \in {<<>>, <<"/">>}
            /\ parsed.hostname # <<>>
            /\ AllIn(parsed.hostname, Letters \cup Digits \cup {".", "-"})
            /\ parsed.hostname[1] \in Letters \cup Digits
            /\ parsed.hostname[Len(parsed.hostname)] \in Letters \cup Digits
    IN  valid(urlparse(origin))

\* _is_suspicious_origin
_is_suspicious_origin(origin) ==
    \E pattern \in suspicious_patterns : IsSubstr(pattern, Lower(origin))

\* is_origin_allowed(origin)[0], for the default configuration, whose allowed
\* origins hold no wildcard and no pattern
is_origin_allowed(origin) ==
    /\ Truthy(origin)
    /\ _is_valid_origin_format(origin.s)
    /\ ~_is_suspicious_origin(origin.s)
    /\ origin \in cors_allowed_origins

ACAO == "Access-Control-Allow-Origin"

ACAC == "Access-Control-Allow-Credentials"

\* frappe.local.response.headers made a dict where it is missing or None
InitHeaders(headers) == IF headers \in {Absent, None} THEN EmptyDict ELSE headers

\* the header update of api_response (utils.py lines 156-166); a response
\* whose headers are missing or None is left alone
api_response_headers(headers) ==
    IF headers \in {Absent, None} THEN headers
    ELSE DictSet(headers, ACAO, S(<<"*">>))

\* apply_cors_headers of api/cors_fix.py
apply_cors_headers(origin, headers) ==
    LET cors_headers ==
            IF Truthy(origin) /\ origin \in fix_allowed_origins
            THEN (ACAC :> S(<<"true">>)) @@ (ACAO :> origin)
            ELSE IF ~Truthy(origin)
            THEN (ACAC :> S(<<"true">>)) @@ (ACAO :> S(<<"*">>))
            ELSE IF IsSubstr(<<"l", "o", "c", "a", "l", "h", "o", "s", "t">>, origin.s)
                    \/ IsSubstr(<<"1", "2", "7", ".", "0", ".", "0", ".", "1">>, origin.s)
            THEN (ACAC :> S(<<"true">>)) @@ (ACAO :> origin)
            ELSE (ACAC :> S(<<"true">>))
    IN  DictUpdate(InitHeaders(headers), cors_headers)

\* the position of a request in a wrapped endpoint, with the response headers
AtEndpoint(headers) ==
    [done |-> FALSE, at |-> "endpoint", raised |-> FALSE, calls |-> 0, headers |-> headers]

Answered(headers, raised) ==
    [done |-> TRUE, at |-> "answered", raised |-> raised, calls |-> 0, headers |-> headers]

\* cors_handler.wrapper up to the call of func: the preflight branch answers
\* itself, the other requests reach the endpoint with the headers set
cors_handler(origin, method, headers) ==
    IF method = "OPTIONS"
    THEN IF ~is_origin_allowed(origin) /\ Truthy(origin)
         THEN Answered(api_response_headers(headers), FALSE)
         ELSE IF headers = Absent THEN Answered(headers, FALSE)
         ELSE IF headers = None THEN Answered(headers, TRUE)
         ELSE Answered(DictUpdate(headers,
                           (ACAC :> S(<<"true">>))
                           @@ (IF is_origin_allowed(origin) /\ Truthy(origin)
                               THEN (ACAO :> origin) ELSE (ACAO :> S(<<"*">>)))),
                       FALSE)
    ELSE AtEndpoint(DictUpdate(InitHeaders(headers),
                        IF is_origin_allowed(origin) /\ Truthy(origin)
                        THEN (ACAC :> S(<<"true">>)) @@ (ACAO :> origin)
                        ELSE IF ~Truthy(origin) THEN (ACAO :> S(<<"*">>))
                        ELSE EmptyDict))

\* the requests: an Origin header or none, a method, and the headers of the
\* response object when the wrapper starts
RequestOrigins ==
    {None, S(<<>>), OriginLocal3000, OriginLocal5173, OriginLocal8080, OriginNetlify,
     OriginLoop5173, OriginLocal9999, OriginEvil, OriginEvilLocalhost, OriginFile,
     OriginWithPath}

MaxEndpointCalls == 2

InitCors ==
    /\ NoPipeline
    /\ NoRateLimit
    /\ fn_name = "cors_handler"
    /\ fn_in \in [origin : RequestOrigins, method : {"OPTIONS", "GET", "POST"},
                  headers : {Absent, None, EmptyDict}]
    /\ fn_out = Pending

\* cors_handler.wrapper, lines 50-156
CallCorsHandler ==
    /\ fn_name = "cors_handler"
    /\ fn_out = Pending
    /\ fn_out' = cors_handler(fn_in.origin, fn_in.method, fn_in.headers)
    /\ UNCHANGED <<fn_name, fn_in>>
    /\ UNCHANGED <<pipeVars, rateVars>>

\* the wrapped endpoint calls apply_cors_headers()
CallApplyCorsHeaders ==
    /\ fn_name = "cors_handler"
    /\ ~fn_out.done /\ fn_out # Pending
    /\ fn_out.calls < MaxEndpointCalls
    /\ fn_out' = [fn_out EXCEPT !.calls = @ + 1,
                                !.headers = apply_cors_headers(fn_in.origin, @)]
    /\ UNCHANGED <<fn_name, fn_in>>
    /\ UNCHANGED <<pipeVars, rateVars>>

\* the wrapped endpoint calls api_response(...)
CallApiResponse ==
    /\ fn_name = "cors_handler"
    /\ ~fn_out.done /\ fn_out # Pending
    /\ fn_out.calls < MaxEndpointCalls
    /\ fn_out' = [fn_out EXCEPT !.calls = @ + 1, !.headers = api_response_headers(@)]
    /\ UNCHANGED <<fn_name, fn_in>>
    /\ UNCHANGED <<pipeVars, rateVars>>

\* the wrapped endpoint returns (line 158)
EndpointReturns ==
    /\ fn_name = "cors_handler"
    /\ ~fn_out.done /\ fn_out # Pending
    /\ fn_out' = [fn_out EXCEPT !.done = TRUE, !.at = "answered"]
    /\ UNCHANGED <<fn_name, fn_in>>
    /\ UNCHANGED <<pipeVars, rateVars>>

NextCors == CallCorsHandler \/ CallApplyCorsHeaders \/ CallApiResponse \/ EndpointReturns

SpecCors == InitCors /\ [][NextCors]_vars

\* a request that is no preflight, with an Origin that is_origin_allowed
\* refuses, has left the wrapper
BlockedOrigin ==
    /\ fn_name = "cors_handler"
    /\ fn_out # Pending
    /\ fn_in.method # "OPTIONS"
    /\ Truthy(fn_in.origin)
    /\ ~is_origin_allowed(fn_in.origin)

\* C26: the final response to a request that is no preflight and whose Origin
\* is present and not allowed carries no Access-Control-Allow-Origin header,
\* whatever the endpoint did
BlockedOriginNoGrant ==
    (BlockedOrigin /\ fn_out.done) => ACAO \notin DOMAIN fn_out.headers

\* what the wrapper itself does: when it hands the request to the endpoint, the
\* response carries no Access-Control-Allow-Origin header for a blocked origin
BlockedOriginNoGrantByWrapper ==
    (BlockedOrigin /\ fn_out.calls = 0) => ACAO \notin DOMAIN fn_out.headers

IsFirstToken(token, text) ==
    /\ token # <<>>
    /\ \A i \in 1..Len(token) : token[i] \notin Whitespace
    /\ HasPrefix(Strip(text), token)
    /\ Len(Strip(text)) > Len(token) => Strip(text)[Len(token) + 1] \in Whitespace

\* C28: computed fields win over direct mappings in map_form_data: a valid
\* age gives date_of_birth the first of January of the current year less the
\* age, whatever birthDate was supplied, and first_name holds only the first
\* whitespace-delimited token of firstName
ComputedFieldsWin ==
    (fn_name = "map_form_data" /\ fn_out.calls # <<>>) =>
        \A k \in 1..Len(fn_out.calls) :
            LET wins(main_data, year, age, firstName) ==
                    /\ (age.t = "int" /\ 0 < age.n /\ age.n <= MaxComputedAge) =>
                          /\ "date_of_birth" \in DOMAIN main_data
                          /\ main_data["date_of_birth"] =
                                S(DigitsOfNat(year - age.n) \o <<"-", "0", "1", "-", "0", "1">>)
                    /\ (isinstance_str(firstName) /\ Strip(firstName.s) # <<>>) =>
                          /\ "first_name" \in DOMAIN main_data
                          /\ isinstance_str(main_data["first_name"])
                          /\ IsFirstToken(main_data["first_name"].s, firstName.s)
            IN  wins(fn_out.calls[k].main_data, fn_out.calls[k].year,
                     Get(fn_in.form_data, "age"), Get(fn_in.form_data, "firstName"))

\* C28 witness: a submission with an age, a birth date and a first name of two
\* words was mapped to the computed birth date and the first word
ComputedFieldsWinSeen ==
    /\ fn_name = "map_form_data"
    /\ fn_out.calls # <<>>
    /\ fn_in.form_data.age = I(30)
    /\ fn_in.form_data.birthDate # Absent
    /\ fn_in.form_data.firstName = S(<<" ", "A", "l", " ", " ", "B">>)
    /\ fn_out.calls[1].main_data["date_of_birth"] # fn_in.form_data.birthDate
    /\ fn_out.calls[1].main_data["first_name"] = S(<<"A", "l">>)

-----------------------------------------------------------------------------
(* api/token_manager.py and api/user_session_manager.py: sessions kept in the
   cache for the tokens of the stored Micro Enterprise Requests *)

HexUpper == {"A", "B", "C", "D", "E", "F"} \cup Digits

\* TokenManager.validate_token_format: 8-4-4-4-12 upper-case hex digits
TokenManager_validate_token_format(token) ==
    /\ Truthy(token)
    /\ isinstance_str(token)
    /\ Len(token.s) = 36
    /\ \A i \in 1..36 : IF i \in {9, 14, 19, 24} THEN token.s[i] = "-"
                        ELSE token.s[i] \in HexUpper

\* TokenManager.token_exists; tokens are the token_id values of the stored
\* Micro Enterprise Requests
token_exists(token, tokens) == TokenManager_validate_token_format(token) /\ token \in tokens

\* DEFAULT_API_CONFIG["token"]["expires_in_days"]
expires_in_days == 365

\* TokenManager.is_token_expired; past_expiry tells whether the record of the
\* token was created more than expires_in_days ago
is_token_expired(token, tokens, past_expiry) ==
    IF expires_in_days <= 0 THEN FALSE
    ELSE IF token \notin tokens THEN TRUE
    ELSE past_expiry

\* TokenManager.validate_token(token)[0]
validate_token(token, tokens, past_expiry) ==
    /\ Truthy(token)
    /\ TokenManager_validate_token_format(token)
    /\ token_exists(token, tokens)
    /\ ~is_token_expired(token, tokens, past_expiry)

\* the session data create_session_from_token stores under vue_session:token
SessionData(token_id) == [token_id |-> token_id, user_type |-> "vue_js_user", is_active |-> TRUE]

\* the values the calls return besides session data and None
Bool(b) == [t |-> "bool", b |-> b]

TokenError == [t |-> "raise", class |-> "TokenError"]

\* what a call leaves: its return value and the cache
Outcome(value, sessions) == [value |-> value, sessions |-> sessions]

\* UserSessionManager.create_session_from_token; the value is the session data
\* or TokenError where it raises
create_session_from_token(token_id, sessions, tokens, past_expiry) ==
    IF ~Truthy(token_id) \/ ~validate_token(token_id, tokens, past_expiry)
    THEN Outcome(TokenError, sessions)
    ELSE Outcome(SessionData(token_id), [sessions EXCEPT ![token_id] = SessionData(token_id)])

\* get_session_by_token answering from the cache only
get_session_by_token_cached(token_id, sessions, tokens, past_expiry, cache_raises) ==
    IF ~Truthy(token_id) \/ cache_raises THEN Outcome(None, sessions)
    ELSE Outcome(sessions[token_id], sessions)

\* UserSessionManager.get_session_by_token: the cached session, or one created
\* again from a token that exists; None where anything raises
get_session_by_token(token_id, sessions, tokens, past_expiry, cache_raises) ==
    IF ~Truthy(token_id) \/ cache_raises THEN Outcome(None, sessions)
    ELSE IF sessions[token_id] # None THEN Outcome(sessions[token_id], sessions)
    ELSE IF token_exists(token_id, tokens)
    THEN LET created(o) == IF o.value = TokenError THEN Outcome(None, sessions) ELSE o
         IN  created(create_session_from_token(token_id, sessions, tokens, past_expiry))
    ELSE Outcome(None, sessions)

\* UserSessionManager.invalidate_session
invalidate_session(token_id, sessions, cache_raises) ==
    IF ~Truthy(token_id) \/ cache_raises THEN Outcome(Bool(FALSE), sessions)
    ELSE Outcome(Bool(TRUE), [sessions EXCEPT ![token_id] = None])

\* UserSessionManager.is_session_valid
is_session_valid(token_id, sessions, tokens, past_expiry, cache_raises) ==
    LET checked(o) ==
            IF o.value = None THEN Outcome(Bool(FALSE), o.sessions)
            ELSE IF ~o.value.is_active THEN Outcome(Bool(FALSE), o.sessions)
            ELSE IF ~token_exists(token_id, tokens)
                    \/ is_token_expired(token_id, tokens, past_expiry)
            THEN Outcome(Bool(FALSE), invalidate_session(token_id, o.sessions, FALSE).sessions)
            ELSE Outcome(Bool(TRUE), o.sessions)
    IN  IF ~Truthy(token_id) THEN Outcome(Bool(FALSE), sessions)
        ELSE checked(get_session_by_token(token_id, sessions, tokens, past_expiry, cache_raises))

\* a token of the format TokenManager generates, and the token arguments
TokUuid ==
    S(<<"A", "1", "B", "2", "C", "3", "D", "4", "-", "0", "0", "0", "0", "-", "4", "0", "0",
      "0", "-", "8", "0", "0", "0", "-", "0", "0", "0", "0", "0", "0", "0", "0", "0", "0",
      "0", "F">>)

SessionTokens == {None, TokA, TokUuid}

MaxSessionCalls == 3

\* the state of the cache and the store, and the calls made so far
InitSession ==
    /\ NoPipeline
    /\ NoRateLimit
    /\ fn_name = "sessions"
    /\ fn_in = [tokens |-> SessionTokens]
    /\ \E tokens \in SUBSET {TokA, TokUuid} :
         fn_out = [done |-> FALSE, sessions |-> [t \in {TokA, TokUuid} |-> None],
                   tokens |-> tokens, past_expiry |-> FALSE, log |-> <<>>]

\* the call op(token_id) returned o
Called(op, token_id, o, cache_raises) ==
    /\ fn_name = "sessions"
    /\ Len(fn_out.log) < MaxSessionCalls
    /\ fn_out' = [fn_out EXCEPT
                     !.sessions = o.sessions,
                     !.log = Append(@, [op |-> op, token_id |-> token_id, value |-> o.value,
                                        raised |-> cache_raises,
                                        exists |-> token_exists(token_id, fn_out.tokens),
                                        expired |-> is_token_expired(token_id, fn_out.tokens,
                                                                     fn_out.past_expiry)])]
    /\ UNCHANGED <<fn_name, fn_in>>
    /\ UNCHANGED <<pipeVars, rateVars>>

CallCreateSession ==
    \E token_id \in SessionTokens :
        Called("create_session_from_token", token_id,
               create_session_from_token(token_id, fn_out.sessions, fn_out.tokens,
                                         fn_out.past_expiry), FALSE)

CallGetSession ==
    \E token_id \in SessionTokens, cache_raises \in BOOLEAN :
        Called("get_session_by_token", token_id,
               get_session_by_token(token_id, fn_out.sessions, fn_out.tokens,
                                    fn_out.past_expiry, cache_raises), cache_raises)

CallInvalidateSession ==
    \E token_id \in SessionTokens, cache_raises \in BOOLEAN :
        Called("invalidate_session", token_id,
               invalidate_session(token_id, fn_out.sessions, cache_raises), cache_raises)

CallIsSessionValid ==
    \E token_id \in SessionTokens, cache_raises \in BOOLEAN :
        Called("is_session_valid", token_id,
               is_session_valid(token_id, fn_out.sessions, fn_out.tokens,
                                fn_out.past_expiry, cache_raises), cache_raises)

\* the cache drops an entry after expires_in_sec
SessionEntryExpires ==
    /\ fn_name = "sessions"
    /\ \E t \in DOMAIN fn_out.sessions :
         /\ fn_out.sessions[t] # None
         /\ fn_out' = [fn_out EXCEPT !.sessions[t] = None]
    /\ UNCHANGED <<fn_name, fn_in>>
    /\ UNCHANGED <<pipeVars, rateVars>>

\* the store changes: the tokens' records grow older than expires_in_days, or
\* the record of a token is deleted
StoreChanges ==
    /\ fn_name = "sessions"
    /\ \/ /\ ~fn_out.past_expiry
          /\ fn_out' = [fn_out EXCEPT !.past_expiry = TRUE]
       \/ \E t \in fn_out.tokens : fn_out' = [fn_out EXCEPT !.tokens = @ \ {t}]
    /\ UNCHANGED <<fn_name, fn_in>>
    /\ UNCHANGED <<pipeVars, rateVars>>

NextSession ==
    \/ CallCreateSession
    \/ CallGetSession
    \/ CallInvalidateSession
    \/ CallIsSessionValid
    \/ SessionEntryExpires
    \/ StoreChanges

SpecSession == InitSession /\ [][NextSession]_vars

\* call k invalidated the session of a token and call k + 1 asked whether the
\* session of that token is valid, the token existing and not expired then and
\* the cache answering
ValidAfterInvalidate(k) ==
    /\ fn_name = "sessions"
    /\ k + 1 <= Len(fn_out.log)
    /\ fn_out.log[k].op = "invalidate_session"
    /\ fn_out.log[k].value = Bool(TRUE)
    /\ fn_out.log[k + 1].op = "is_session_valid"
    /\ fn_out.log[k + 1].token_id = fn_out.log[k].token_id
    /\ fn_out.log[k + 1].exists
    /\ ~fn_out.log[k + 1].expired
    /\ ~fn_out.log[k + 1].raised

\* C29: invalidate_session only deletes the cached entry: while the token
\* exists and is not expired, is_session_valid called after
\* invalidate_session returns true, the session having been created again
InvalidationNotDurable ==
    \A k \in 1..MaxSessionCalls :
        ValidAfterInvalidate(k) => fn_out.log[k + 1].value = Bool(TRUE)

\* C29 witness: a session was created, invalidated, and found valid again in
\* the cache
InvalidationNotDurableSeen ==
    /\ fn_name = "sessions"
    /\ Len(fn_out.log) = 3
    /\ fn_out.log[1].op = "create_session_from_token"
    /\ fn_out.log[1].value = SessionData(TokUuid)
    /\ ValidAfterInvalidate(2)
    /\ fn_out.log[3].value = Bool(TRUE)
    /\ fn_out.sessions[TokUuid] = SessionData(TokUuid)

====
